---- MODULE Spec2Model ----
(***************************************************************************)
(* Model of the WidowX arm controller (WidowX.cpp).                        *)
(*                                                                         *)
(* Numbers.  The controller computes in float; the model computes in       *)
(* fixed point on integers that stay inside 32 bits:                       *)
(*   - an angle is an integer number of angle units, APi units = pi rad;   *)
(*     APi is chosen so that the angle of every raw count of both servo    *)
(*     families is a whole number of units;                                *)
(*   - a length is an integer number of 1/LS cm;                           *)
(*   - a dimensionless float (sine, cosine, the IK term c) is an integer   *)
(*     number of 1/FS.                                                     *)
(***************************************************************************)
EXTENDS Integers, Sequences, FiniteSets, TLC

(***************************************************************************)
(* Fixed-point arithmetic                                                  *)
(***************************************************************************)
FS == 10000
LS == 100
APi == 2792790
HalfPi == APi \div 2

Abs(x) == IF x < 0 THEN -x ELSE x

Max(x, y) == IF x >= y THEN x ELSE y

Min(x, y) == IF x <= y THEN x ELSE y

\* The one element of a singleton set.
The(S) == CHOOSE v \in S : TRUE

\* F applied to the value of v, and to the values of v and w: a float the
\* code computes once and then reads several times.
Let(v, F(_)) == The({F(x) : x \in {v}})

Let2(v, w, F(_, _)) == The({F(x, y) : x \in {v}, y \in {w}})

\* <<quotient, remainder>> of x * y by z for x, y >= 0 and 0 < z < 2^30,
\* computed by doubling so that no intermediate product leaves 32 bits.
RECURSIVE MulQR(_, _, _)
MulQR(x, y, z) ==
    IF y = 0 THEN <<0, 0>>
    ELSE Let(MulQR(x, y \div 2, z), LAMBDA h :
         Let2(2 * h[1] + (2 * h[2]) \div z, (2 * h[2]) % z, LAMBDA q2, r2 :
             IF y % 2 = 0 THEN <<q2, r2>>
             ELSE <<q2 + (x \div z) + (r2 + (x % z)) \div z,
                    (r2 + (x % z)) % z>>))

\* C integer division: the quotient truncated toward zero.
TruncDiv(x, y) ==
    IF (x >= 0) = (y > 0) THEN Abs(x) \div Abs(y) ELSE -(Abs(x) \div Abs(y))

\* x / y rounded to the nearest integer, halves away from zero: round().
RoundDiv(x, y) ==
    IF x >= 0 THEN (2 * x + y) \div (2 * y) ELSE -((2 * (-x) + y) \div (2 * y))

\* x * y / z rounded to the nearest integer (z > 0).
MulDiv(x, y, z) ==
    LET qr == IF Abs(x) >= Abs(y) THEN MulQR(Abs(x), Abs(y), z)
                                  ELSE MulQR(Abs(y), Abs(x), z)
        m  == qr[1] + (IF 2 * qr[2] >= z THEN 1 ELSE 0)
    IN  IF (x >= 0) = (y >= 0) THEN m ELSE -m

\* floor(sqrt(n)) for n >= 0, by bisection on [lo, hi).
RECURSIVE SqrtBisect(_, _, _)
SqrtBisect(n, lo, hi) ==
    IF hi - lo <= 1 THEN lo
    ELSE LET mid == (lo + hi) \div 2
         IN  IF mid * mid <= n THEN SqrtBisect(n, mid, hi)
                               ELSE SqrtBisect(n, lo, mid)

ISqrt(n) == SqrtBisect(n, 0, 46341)

\* sqrt(n) rounded to the nearest integer.
RSqrt(n) == LET r == ISqrt(n) IN IF n - r * r > r THEN r + 1 ELSE r

\* sqrt(x^2 + y^2) of two lengths; large arguments are scaled down first.
Hypot(x, y) ==
    LET k == Max(Abs(x), Abs(y)) \div 30000 + 1
    IN  RSqrt((x \div k) * (x \div k) + (y \div k) * (y \div k)) * k

\* pow(v, 2) of a length v, in units of 1/LS cm^2.  A float holds any such
\* square; the model saturates at Huge, far above every square the solvers
\* compare it with.
Huge == 1000000000

Sq(v) ==
    IF Abs(v) > 300000 THEN Huge
    ELSE IF Abs(v) < 46000 THEN RoundDiv(v * v, LS)
    ELSE MulDiv(v, v, LS)

\* atan2(sin(q), cos(q)): the angle q brought into (-pi, pi].
WrapAngle(q) ==
    LET m == (q + APi) % (2 * APi)
    IN  IF m = 0 THEN APi ELSE m - APi

\* sin of x/FS rad for 0 <= x/FS <= pi/2: the series up to x^9 in Horner form.
SinSeries(x) ==
    LET x2 == (x * x) \div FS
        h4 == FS - x2 \div 72
        h3 == FS - ((x2 * h4) \div FS) \div 42
        h2 == FS - ((x2 * h3) \div FS) \div 20
        h1 == FS - ((x2 * h2) \div FS) \div 6
    IN  (x * h1 + FS \div 2) \div FS

\* sin(q) * FS for an angle q in angle units.
Sin(q) ==
    Let(WrapAngle(q), LAMBDA w :
    Let(IF Abs(w) > HalfPi THEN APi - Abs(w) ELSE Abs(w), LAMBDA f :
    Let(SinSeries((f * 1000 + 44448) \div 88897), LAMBDA s :
        IF w < 0 THEN -s ELSE s)))

\* cos(q) * FS.
Cos(q) == Sin(HalfPi - WrapAngle(q))

\* atan(y / x) for 0 <= y <= x, x > 0, x and y below 2^16, in angle units:
\* the estimate r (pi/4 + 0.273 (1 - r)) of atan r, then one Newton step on
\* y cos t - x sin t = 0.
AtanOctant(y, x) ==
    Let((y * FS) \div x, LAMBDA r :
    Let((r * (7854 + (2730 * (FS - r)) \div FS)) \div FS, LAMBDA est :
    Let((est * 8890) \div 100, LAMBDA t0 :
    Let2(Cos(t0), Sin(t0), LAMBDA c, s :
        t0 + (((y * c - x * s) \div 4) * 889) \div ((x * c + y * s) \div 4000)))))

\* atan2(y, x) in angle units, in (-pi, pi]; atan2(0, 0) = 0.
Atan2(y, x) ==
    Let(Max(Abs(x), Abs(y)), LAMBDA big :
    Let2(big \div 50000 + 1, IF big = 0 THEN 1 ELSE Max(1, 50000 \div big),
         LAMBDA k, m :
    Let2(RoundDiv(Abs(y) * m, k), RoundDiv(Abs(x) * m, k), LAMBDA ys, xs :
    Let(IF y = 0 THEN 0
        ELSE IF x = 0 THEN HalfPi
        ELSE IF ys <= xs THEN AtanOctant(ys, xs)
        ELSE HalfPi - AtanOctant(xs, ys), LAMBDA t :
        IF x >= 0 THEN (IF y >= 0 THEN t ELSE -t)
        ELSE (IF y >= 0 THEN APi - t ELSE t - APi)))))

\* acos(c / FS) in angle units, in [0, pi], for |c| <= FS.
Acos(c) == Atan2(RSqrt(FS * FS - c * c), c)

(***************************************************************************)
(* Arm geometry, joint limits and unit conversion                          *)
(***************************************************************************)
SERVOCOUNT == 6
Idx == 0 .. (SERVOCOUNT - 1)

L0 == 9 * LS
L1 == 14 * LS
L2 == 5 * LS
L3 == 14 * LS
L4 == 14 * LS
D == RSqrt(L1 * L1 + L2 * L2)
alpha == Atan2(L1, L2)
sa == Sin(alpha)
ca == Cos(alpha)
DEFAULT_TIME == 2000

\* The limits are floats; an angle of the model is a whole number of units, so
\* a limit that is no whole number of units is replaced by its integer part.
limPi_2 == (181 * APi) \div 360
lim5Pi_6 == (5 * APi) \div 6
q2Lim == <<-limPi_2, limPi_2>>
q3Lim == <<-limPi_2, lim5Pi_6>>
q4Lim == <<-((11 * APi) \div 18), limPi_2>>

\* A faulty variant of OutOfLim: the upper limit is not tested.
OutOfLimLowOnly(q, lim) == q < lim[1]

\* q < lim[0] || q > lim[1]
OutOfLim(q, lim) == q < lim[1] \/ q > lim[2]

\* Angle units per raw count: 0.00153435538637 rad (MX) and 0.00511826979472
\* rad (AX); their inverses 651.739492 and 195.378524405 counts per rad.
MXUnitsPerCount == 1364
AXUnitsPerCount == 4550

positionToAngle(idx, position) ==
    IF idx = 0 \/ idx = 3 \/ idx = 2
      THEN (MXUnitsPerCount * (2 * position - 4095)) \div 2
    ELSE IF idx = 1
      THEN -((MXUnitsPerCount * (2 * position - 4095)) \div 2)
    ELSE (AXUnitsPerCount * (2 * position - 1023)) \div 2

\* A faulty variant of angleToPosition: the offsets 2048 and 512 of the
\* centre counts instead of 2047.5 and 511.5.
angleToPositionCentreCount(idx, angle) ==
    IF idx = 0 \/ idx = 3 \/ idx = 2
      THEN RoundDiv(2 * angle + 4096 * MXUnitsPerCount, 2 * MXUnitsPerCount)
    ELSE IF idx = 1
      THEN RoundDiv(-2 * angle + 4096 * MXUnitsPerCount, 2 * MXUnitsPerCount)
    ELSE RoundDiv(2 * angle + 1024 * AXUnitsPerCount, 2 * AXUnitsPerCount)

angleToPosition(idx, angle) ==
    IF idx = 0 \/ idx = 3 \/ idx = 2
      THEN RoundDiv(2 * angle + 4095 * MXUnitsPerCount, 2 * MXUnitsPerCount)
    ELSE IF idx = 1
      THEN RoundDiv(-2 * angle + 4095 * MXUnitsPerCount, 2 * MXUnitsPerCount)
    ELSE RoundDiv(2 * angle + 1023 * AXUnitsPerCount, 2 * AXUnitsPerCount)

(***************************************************************************)
(* Inverse kinematics.  Each solver returns [fail, angle]: fail is the     *)
(* returned uint8_t and angle the contents of desired_angle on return.     *)
(* cur is current_angle, des is desired_angle on entry, oob is the float   *)
(* found at current_angle[6], one past the end of the array.               *)
(***************************************************************************)
\* A faulty variant of IKFail: q1 is stored before the solver gives up.
IKFailClobber(des) == [fail |-> 1, angle |-> [des EXCEPT ![0] = HalfPi]]

IKFail(des) == [fail |-> 1, angle |-> des]

\* desired_angle[0..3] = q1..q4, [4] = current_angle[5], [5] = current_angle[6]
IKStore(des, cur, oob, q1, q2, q3, q4) ==
    [fail |-> 0,
     angle |-> [i \in Idx |-> CASE i = 0 -> q1
                                [] i = 1 -> q2
                                [] i = 2 -> q3
                                [] i = 3 -> q4
                                [] i = 4 -> cur[5]
                                [] OTHER -> oob]]

\* One pass of the for(;;) body of getIK_Q4 up to q2: the new a, b and q2.
Q4Shoulder(q3, q4, X, Z) ==
    Let2(Cos(q3), Sin(q3), LAMBDA c3, s3 :
    Let2(Cos(q4), Sin(q4), LAMBDA c4, s4 :
    Let2(RoundDiv(D * ca + L3 * c3 + L4 * RoundDiv(c3 * c4 - s3 * s4, FS), FS),
         RoundDiv(D * sa + L3 * s3 + L4 * RoundDiv(s3 * c4 + c3 * s4, FS), FS),
         LAMBDA a, b :
    Let(Atan2(a * Z - b * X, a * X + b * Z), LAMBDA q2 :
        [a |-> a, b |-> b, q2 |-> q2]))))

\* getIK_Q4 from "uint8_t tryTwice = 1" on: q3m and q3p are the two elbow
\* candidates, c and root the floats c and sqrt(cond) the retry reads.
Q4Cascade(q1, q3m, q3p, q4, X, Z, c, root, cur, des, oob) ==
    LET swap == OutOfLim(q3m, q3Lim)
        q3   == IF swap THEN q3p ELSE q3m
        tryTwice == IF swap THEN 0 ELSE 1
    IN  IF swap /\ OutOfLim(q3p, q3Lim) THEN IKFail(des)
        ELSE
        Let(Q4Shoulder(q3, q4, X, Z), LAMBDA p1 :
            IF ~OutOfLim(p1.q2, q2Lim)
              THEN IKStore(des, cur, oob, q1, p1.q2, q3, q4)
            ELSE IF tryTwice = 0 THEN IKFail(des)
            ELSE
            \* the retry reads a and b as the loop body left them
            Let(WrapAngle(2 * Atan2(p1.b + root, p1.a + c)), LAMBDA q3r :
                IF OutOfLim(q3r, q3Lim) THEN IKFail(des)
                ELSE
                Let(Q4Shoulder(q3r, q4, X, Z), LAMBDA p2 :
                    IF OutOfLim(p2.q2, q2Lim) THEN IKFail(des)
                    ELSE IKStore(des, cur, oob, q1, p2.q2, q3r, q4))))

\* getIK_Q4 up to its two elbow candidates: the coefficients a, b and c, cond,
\* root = sqrt(cond), and the minus and plus solutions q3m and q3p (0 when
\* cond < 0, where the code computes neither).
Q4Elbows(Px, Py, Pz, q4) ==
    Let2(Hypot(Px, Py), Pz - L0, LAMBDA X, Z :
    Let2(Sin(q4), Cos(q4), LAMBDA s4, c4 :
    Let2(RoundDiv(L3 * ca + L4 * RoundDiv(ca * c4 + sa * s4, FS), FS),
         RoundDiv(L3 * sa + L4 * RoundDiv(sa * c4 - ca * s4, FS), FS),
         LAMBDA a, b :
    Let(MulDiv(Sq(X) + Sq(Z) - Sq(D) - Sq(L3) - Sq(L4)
               - RoundDiv(2 * ((L3 * L4) \div LS) * c4, FS), LS, 2 * D),
        LAMBDA c :
    Let(Sq(a) + Sq(b) - Sq(c), LAMBDA cond :
    Let(IF cond < 0 THEN 0 ELSE RSqrt(cond * LS), LAMBDA root :
        [X |-> X, Z |-> Z, c |-> c, cond |-> cond, root |-> root,
         q3m |-> IF cond < 0 THEN 0 ELSE WrapAngle(2 * Atan2(b - root, a + c)),
         q3p |-> IF cond < 0 THEN 0
                 ELSE WrapAngle(2 * Atan2(b + root, a + c))]))))))

getIK_Q4(Px, Py, Pz, cur, des, oob) ==
    Let(Q4Elbows(Px, Py, Pz, cur[3]), LAMBDA e :
        IF e.cond < 0 THEN IKFail(des)
        ELSE Q4Cascade(Atan2(Py, Px), e.q3m, e.q3p, cur[3], e.X, e.Z, e.c,
                       e.root, cur, des, oob))

\* A faulty variant of GammaPass: q4 = -gamma - q2, the elbow left out.
GammaPassElbowDropped(q3, X, Z, gamma) ==
    Let2(RoundDiv(D * ca + L3 * Cos(q3), FS), RoundDiv(D * sa + L3 * Sin(q3), FS),
         LAMBDA a, b :
    Let(Atan2(a * Z - b * X, a * X + b * Z), LAMBDA q2 :
        [q2 |-> q2, q4 |-> -gamma - q2]))

\* One pass of the for(;;) body of getIK_Gamma: q2 and q4 for the elbow q3.
GammaPass(q3, X, Z, gamma) ==
    Let2(RoundDiv(D * ca + L3 * Cos(q3), FS), RoundDiv(D * sa + L3 * Sin(q3), FS),
         LAMBDA a, b :
    Let(Atan2(a * Z - b * X, a * X + b * Z), LAMBDA q2 :
        [q2 |-> q2, q4 |-> -gamma - q2 - q3]))

\* The limit cascade shared by getIK_Gamma and getIK_Gamma_Controller, from
\* "uint8_t tryTwice = 1" to the break: first is the elbow candidate tried
\* first, other the one every retry computes.  Returns [fail, q2, q3, q4].
GammaCascade(first, other, X, Z, gamma) ==
    LET swap == OutOfLim(first, q3Lim)
        q3   == IF swap THEN other ELSE first
        tryTwice == IF swap THEN 0 ELSE 1
        none == [fail |-> 1, q2 |-> 0, q3 |-> 0, q4 |-> 0]
    IN  IF swap /\ OutOfLim(other, q3Lim) THEN none
        ELSE
        Let(GammaPass(q3, X, Z, gamma), LAMBDA p1 :
            IF ~OutOfLim(p1.q2, q2Lim) /\ ~OutOfLim(p1.q4, q4Lim)
              THEN [fail |-> 0, q2 |-> p1.q2, q3 |-> q3, q4 |-> p1.q4]
            ELSE IF tryTwice = 0 THEN none
            ELSE IF OutOfLim(other, q3Lim) THEN none
            ELSE
            Let(GammaPass(other, X, Z, gamma), LAMBDA p2 :
                IF OutOfLim(p2.q2, q2Lim) \/ OutOfLim(p2.q4, q4Lim) THEN none
                ELSE [fail |-> 0, q2 |-> p2.q2, q3 |-> other, q4 |-> p2.q4]))

\* The wrist centre (X, Z) in the arm's plane and the IK term c (times FS).
GammaX(Px, Py, gamma) == Hypot(Px, Py) - RoundDiv(L4 * Cos(gamma), FS)

\* A faulty variant of GammaZ: the height is taken from the base, not from the
\* shoulder.
GammaZFromBase(Pz, gamma) == Pz + RoundDiv(L4 * Sin(gamma), FS)

GammaZ(Pz, gamma) == Pz - L0 + RoundDiv(L4 * Sin(gamma), FS)

GammaC(X, Z) ==
    MulDiv(Sq(X) + Sq(Z) - Sq(D) - Sq(L3), FS, 2 * ((D * L3) \div LS))

\* A faulty variant of getIK_Gamma: alpha - acos(c) is tried first.
getIK_GammaMinusFirst(Px, Py, Pz, gamma, cur, des, oob) ==
    Let2(GammaX(Px, Py, gamma), GammaZ(Pz, gamma), LAMBDA X, Z :
    Let2(Atan2(Py, Px), GammaC(X, Z), LAMBDA q1, c :
        IF Abs(c) > FS THEN IKFail(des)
        ELSE
        Let(Acos(c), LAMBDA ac :
        Let(GammaCascade(WrapAngle(alpha - ac), WrapAngle(alpha + ac), X, Z, gamma),
            LAMBDA r :
            IF r.fail = 1 THEN IKFail(des)
            ELSE IKStore(des, cur, oob, q1, r.q2, r.q3, r.q4)))))

getIK_Gamma(Px, Py, Pz, gamma, cur, des, oob) ==
    Let2(GammaX(Px, Py, gamma), GammaZ(Pz, gamma), LAMBDA X, Z :
    Let2(Atan2(Py, Px), GammaC(X, Z), LAMBDA q1, c :
        IF Abs(c) > FS THEN IKFail(des)
        ELSE
        Let(Acos(c), LAMBDA ac :
        Let(GammaCascade(WrapAngle(alpha + ac), WrapAngle(alpha - ac), X, Z, gamma),
            LAMBDA r :
            IF r.fail = 1 THEN IKFail(des)
            ELSE IKStore(des, cur, oob, q1, r.q2, r.q3, r.q4)))))

\* abs(c) > 1 in getIK_Gamma_Controller: the test that precedes the read of
\* the elbow servo.
ControllerUnreachable(Px, Py, Pz, gamma) ==
    Abs(GammaC(GammaX(Px, Py, gamma), GammaZ(Pz, gamma))) > FS

\* A faulty variant of getIK_Gamma_Controller: the candidate farther from
\* q3_prev is preferred.
getIK_Gamma_ControllerFarther(Px, Py, Pz, gamma, q3_prev, des) ==
    Let2(GammaX(Px, Py, gamma), GammaZ(Pz, gamma), LAMBDA X, Z :
    Let2(Atan2(Py, Px), Acos(GammaC(X, Z)), LAMBDA q1, ac :
    Let2(WrapAngle(alpha + ac), WrapAngle(alpha - ac), LAMBDA q3_1, q3_2 :
    Let(GammaCascade(IF Abs(q3_1 - q3_prev) < Abs(q3_2 - q3_prev) THEN q3_2
                     ELSE q3_1,
                     IF Abs(q3_1 - q3_prev) < Abs(q3_2 - q3_prev) THEN q3_1
                     ELSE q3_2,
                     X, Z, gamma), LAMBDA r :
        IF r.fail = 1 THEN IKFail(des)
        ELSE [fail |-> 0,
              angle |-> [i \in Idx |-> CASE i = 0 -> q1
                                         [] i = 1 -> r.q2
                                         [] i = 2 -> r.q3
                                         [] i = 3 -> r.q4
                                         [] OTHER -> des[i]]]))))

\* getIK_Gamma_Controller past that test; q3_prev is getServoAngle(2).
getIK_Gamma_Controller(Px, Py, Pz, gamma, q3_prev, des) ==
    Let2(GammaX(Px, Py, gamma), GammaZ(Pz, gamma), LAMBDA X, Z :
    Let2(Atan2(Py, Px), Acos(GammaC(X, Z)), LAMBDA q1, ac :
    Let2(WrapAngle(alpha + ac), WrapAngle(alpha - ac), LAMBDA q3_1, q3_2 :
    Let(IF Abs(q3_1 - q3_prev) > Abs(q3_2 - q3_prev) THEN 0 ELSE 1,
        LAMBDA selection :
    \* the retry computes alpha + pow(-1, selection) * acos(c)
    Let(GammaCascade(IF selection = 0 THEN q3_2 ELSE q3_1,
                     WrapAngle(alpha + (IF selection = 0 THEN 1 ELSE -1) * ac),
                     X, Z, gamma), LAMBDA r :
        IF r.fail = 1 THEN IKFail(des)
        ELSE [fail |-> 0,
              angle |-> [i \in Idx |-> CASE i = 0 -> q1
                                         [] i = 1 -> r.q2
                                         [] i = 2 -> r.q3
                                         [] i = 3 -> r.q4
                                         [] OTHER -> des[i]]])))))

\* 3x3 matrices of floats (times FS), rows and columns numbered from 0.
MatMul(A, B) ==
    [i \in 0 .. 2 |-> [j \in 0 .. 2 |->
        RoundDiv(A[i][0] * B[0][j] + A[i][1] * B[1][j] + A[i][2] * B[2][j], FS)]]

\* Invert() of a rotation matrix: its transpose.
Invert(A) == [i \in 0 .. 2 |-> [j \in 0 .. 2 |-> A[j][i]]]

Row(x, y, z) == [j \in 0 .. 2 |-> CASE j = 0 -> x [] j = 1 -> y [] OTHER -> z]

rotz(angle) ==
    Let2(Cos(angle), Sin(angle), LAMBDA c, s :
        [i \in 0 .. 2 |-> CASE i = 0 -> Row(c, -s, 0)
                            [] i = 1 -> Row(s, c, 0)
                            [] OTHER -> Row(0, 0, FS)])

roty(angle) ==
    Let2(Cos(angle), Sin(angle), LAMBDA c, s :
        [i \in 0 .. 2 |-> CASE i = 0 -> Row(c, 0, s)
                            [] i = 1 -> Row(0, FS, 0)
                            [] OTHER -> Row(-s, 0, c)])

rotx(angle) ==
    Let2(Cos(angle), Sin(angle), LAMBDA c, s :
        [i \in 0 .. 2 |-> CASE i = 0 -> Row(FS, 0, 0)
                            [] i = 1 -> Row(0, c, -s)
                            [] OTHER -> Row(0, s, c)])

getIK_Rd(Px, Py, Pz, Rd, cur, des, oob) ==
    Let(Atan2(-Rd[2][0], Rd[0][0]), LAMBDA gamma :
    Let(getIK_Gamma(Px, Py, Pz, gamma, cur, des, oob), LAMBDA g :
        IF g.fail = 1 THEN IKFail(des)
        ELSE
        Let(MatMul(Invert(roty(gamma)), Rd), LAMBDA Rx5 :
            [fail |-> 0,
             angle |-> [g.angle EXCEPT ![4] = Atan2(Rx5[2][1], Rx5[1][1])]])))

getIK_RdBase(Px, Py, Pz, RdBase, cur, des, oob) ==
    Let(MatMul(Invert(rotz(Atan2(Py, Px))), RdBase), LAMBDA Rd :
        getIK_Rd(Px, Py, Pz, Rd, cur, des, oob))

\* getPoint() past its refresh: point[] and global_gamma for the angles ang.
getPoint(ang) ==
    Let2(ang[1] + ang[2], ang[1] + ang[2] + ang[3], LAMBDA q23, q234 :
    Let(RoundDiv(D * Cos(alpha + ang[1]) + L3 * Cos(q23) + L4 * Cos(q234), FS),
        LAMBDA phi2 :
        [point |-> <<RoundDiv(Cos(ang[0]) * phi2, FS),
                     RoundDiv(Sin(ang[0]) * phi2, FS),
                     L0 + RoundDiv(D * Sin(alpha + ang[1]) + L3 * Sin(q23)
                                   + L4 * Sin(q234), FS)>>,
         gamma |-> -q234]))

(***************************************************************************)
(* Trajectory generator.  W[i] is kept exactly: <<n0, n1, n2, n3>> stands   *)
(* for the floats W0 = n0, W1 = n1, W2 = n2 / time^2, W3 = n3 / time^3.     *)
(***************************************************************************)
\* A faulty variant of cubeInterpolation: tf_2_3 = 1 / pow(time, 3).
cubeInterpolationHalfCubic(params, time) ==
    <<params[1], params[3], -3 * params[1] + 3 * params[2],
      params[1] - params[2] + time * (params[3] + params[4])>>

\* wi = M_inv * params; -2 / time and -1 / time are int divisions.  With
\* time = 0 the quotient is whatever the division leaves; every caller passes
\* zero velocities, which it multiplies.
cubeInterpolation(params, time) ==
    LET m2 == IF time = 0 THEN 0 ELSE TruncDiv(-2, time)
        m3 == IF time = 0 THEN 0 ELSE TruncDiv(-1, time)
    IN  <<params[1],
          params[3],
          -3 * params[1] + 3 * params[2]
              + time * time * (m2 * params[3] + m3 * params[4]),
          2 * params[1] - 2 * params[2] + time * (params[3] + params[4])>>

RECURSIVE Gcd(_, _)
Gcd(m, n) == IF n = 0 THEN m ELSE Gcd(n, m % n)

\* round(W0 + W1 t + W2 t^2 + W3 t^3) for 0 <= t and 0 < time.
PolyAt(w, t, time) ==
    Let(Gcd(time, t), LAMBDA g :
    Let2(t \div g, time \div g, LAMBDA tt, TT :
    Let2(TT * TT * TT, w[3] * TT + w[4] * tt, LAMBDA den, s :
    Let2(MulQR(Abs(s), tt * tt, den), w[1] + w[2] * t, LAMBDA qr, base :
    \* the value is whole + num / den with 0 <= num < den
    Let2(IF s >= 0 THEN base + qr[1]
         ELSE IF qr[2] = 0 THEN base - qr[1] ELSE base - qr[1] - 1,
         IF s >= 0 \/ qr[2] = 0 THEN qr[2] ELSE den - qr[2],
         LAMBDA whole, num :
        IF whole >= 0 THEN whole + (IF 2 * num >= den THEN 1 ELSE 0)
        ELSE whole + (IF 2 * num > den THEN 1 ELSE 0))))))

(***************************************************************************)
(* The actuator bus.  An event is one packet the controller puts on the    *)
(* bus: a position read, a torque command, a goal-position write           *)
(* (SetPosition) or a sync-write frame.                                    *)
(***************************************************************************)
Ev(op, bus, val) == [op |-> op, bus |-> bus, val |-> val, bytes |-> <<>>]

\* Raw range of the servo with bus id b: MX-28/MX-64 on 1..4, AX-12 on 5..6.
ServoMax(b) == IF b <= 4 THEN 4095 ELSE 1023

\* The goal-position writes a sync-write frame carries, one per servo.
SyncGoals(bytes) ==
    [k \in 1 .. ((Len(bytes) - 8) \div 3) |->
        Ev("goal", bytes[5 + 3 * k], bytes[6 + 3 * k] + 256 * bytes[7 + 3 * k])]

\* The servo positions after the bus events evs: a servo moves to a goal
\* inside its range before the next packet.
RECURSIVE Moved(_, _)
Moved(sv, evs) ==
    IF evs = <<>> THEN sv
    ELSE LET e == Head(evs)
         IN  IF e.op = "sync" THEN Moved(sv, SyncGoals(e.bytes) \o Tail(evs))
             ELSE IF e.op = "goal" /\ e.bus \in DOMAIN sv
                     /\ e.val >= 0 /\ e.val <= ServoMax(e.bus)
               THEN Moved([sv EXCEPT ![e.bus] = e.val], Tail(evs))
             ELSE Moved(sv, Tail(evs))

\* The torque commands last received by each servo after the events evs.
RECURSIVE Torqued(_, _)
Torqued(tq, evs) ==
    IF evs = <<>> THEN tq
    ELSE LET e == Head(evs)
             nx == IF e.op = "torque" /\ e.bus \in DOMAIN tq
                   THEN [tq EXCEPT ![e.bus] = e.val] ELSE tq
         IN  Torqued(nx, Tail(evs))

(***************************************************************************)
(* State                                                                   *)
(***************************************************************************)
VARIABLES
    id,                 \* id[idx]: bus id of channel idx
    isRelaxed,          \* the torque flag
    current_position,   \* last raw position read, per channel
    current_angle,      \* its angle
    desired_position,   \* raw goal, per channel
    desired_angle,      \* goal angle, per channel
    W,                  \* W[idx]: the cubic of the trajectory being run
    pc,                 \* "idle", or the trajectory loop being run
    remTime,            \* duration of that trajectory (ms)
    currentTime,        \* millis() - t0 inside the loop
    servo,              \* servo[b]: position of the servo with bus id b
    torque,             \* torque[b]: last torque command servo b received
                        \* (1 on, 0 relax, -1 none yet)
                        \* (1 on, 0 relax, -1 none yet)
    log,                \* the bus events of the last step, in order
    ret,                \* the last call: its name, index argument, IK result
                        \* and return value
    ncmd                \* calls made so far

vars == <<id, isRelaxed, current_position, current_angle, desired_position,
          desired_angle, W, pc, remTime, currentTime, servo, torque, log, ret,
          ncmd>>

MaxCmds == 2
MaxFaults == 10
TickMs == 10

Zero6 == [i \in Idx |-> 0]

\* Preset poses (poses.h, which is not among the sources at hand): six raw
\* targets each.  Center is the pose of all angles 0 that moveCenter's comment
\* describes; Home and Rest stand for the other two tables.
Center == [i \in Idx |-> IF i < 4 THEN 2048 ELSE 512]
Home == [i \in Idx |-> CASE i = 1 -> 1800 [] i = 2 -> 1500 [] i = 3 -> 2300
                         [] i = 4 -> 512 [] i = 5 -> 512 [] OTHER -> 2048]
Rest == [i \in Idx |-> CASE i = 1 -> 1024 [] i = 2 -> 1024 [] i = 3 -> 1700
                         [] i = 4 -> 512 [] i = 5 -> 512 [] OTHER -> 2048]

Poses == {<<"moveCenter", Center>>, <<"moveHome", Home>>, <<"moveRest", Rest>>}

\* Where the arm stands when the controller is constructed.
InitServo == [b \in 1 .. 6 |-> Center[b - 1]]

\* Read faults of one refresh: faults[idx] leading reads of channel idx fail.
Faults ==
    {Zero6,
     [i \in Idx |-> CASE i = 2 -> 1 [] i = 3 -> MaxFaults [] OTHER -> 0]}

\* The constructor; the members it does not set start as zeros.
Init ==
    /\ id = [i \in Idx |-> i + 1]
    /\ isRelaxed = 0
    /\ current_position = Zero6
    /\ current_angle = Zero6
    /\ desired_position = Zero6
    /\ desired_angle = Zero6
    /\ W = [i \in Idx |-> <<0, 0, 0, 0>>]
    /\ pc = "idle"
    /\ remTime = 0
    /\ currentTime = 0
    /\ servo = InitServo
    /\ torque = [b \in 1 .. 6 |-> -1]
    /\ log = <<>>
    /\ ret = [op |-> "WidowX", arg |-> -1, ik |-> -1, val |-> 0]
    /\ ncmd = 0

(***************************************************************************)
(* Reading positions                                                       *)
(***************************************************************************)
\* GetPosition(b), the k-th read of a call of which the first nfail fail.
GetPosition(sv, b, k, nfail) ==
    IF k <= nfail \/ b \notin DOMAIN sv THEN -1 ELSE sv[b]

\* A faulty variant of RetryLoop: the loop gives up one retry early.
RECURSIVE RetryLoopNine(_, _, _, _)
RetryLoopNine(i, sv, b, nfail) ==
    IF i >= 9 THEN <<i, -1, <<>>, 0>>
    ELSE LET r == GetPosition(sv, b, i + 1, nfail)
         IN  IF r # -1 THEN <<i, r, <<Ev("read", b, r)>>, 0>>
             ELSE LET rest == RetryLoopNine(i + 1, sv, b, nfail)
                  IN  <<rest[1], rest[2], <<Ev("read", b, r)>> \o rest[3],
                        10 * i + rest[4]>>

\* for (i = 1; i < 10; i++) of getServoPosition, entered at i:
\* <<i on exit, current_position[idx] on exit, the reads made, ms delayed>>.
RECURSIVE RetryLoop(_, _, _, _)
RetryLoop(i, sv, b, nfail) ==
    IF i >= 10 THEN <<i, -1, <<>>, 0>>
    ELSE LET r == GetPosition(sv, b, i + 1, nfail)
         IN  IF r # -1 THEN <<i, r, <<Ev("read", b, r)>>, 0>>
             ELSE LET rest == RetryLoop(i + 1, sv, b, nfail)
                  IN  <<rest[1], rest[2], <<Ev("read", b, r)>> \o rest[3],
                        10 * i + rest[4]>>

\* A faulty variant of getServoPosition: "if (i == 10) current_position[idx] =
\* prev" is missing.
getServoPositionKeepSentinel(idx, st, ids, sv, nfail) ==
    LET first == GetPosition(sv, ids[idx], 1, nfail)
        loop  == RetryLoop(1, sv, ids[idx], nfail)
        new   == IF first # -1 THEN first ELSE loop[2]
        evs   == IF first # -1 THEN <<Ev("read", ids[idx], first)>>
                 ELSE <<Ev("read", ids[idx], first)>> \o loop[3]
    IN  [pos |-> [st.pos EXCEPT ![idx] = new],
         ang |-> [st.ang EXCEPT ![idx] = positionToAngle(idx, new)],
         ev  |-> st.ev \o evs,
         val |-> new,
         ms  |-> st.ms + (IF first # -1 THEN 0 ELSE loop[4])]

\* getServoPosition(idx) on st = [pos, ang, ev, val, ms]: current_position,
\* current_angle, the bus events so far, the value returned and the
\* milliseconds spent in delay().
getServoPosition(idx, st, ids, sv, nfail) ==
    LET prev  == st.pos[idx]
        first == GetPosition(sv, ids[idx], 1, nfail)
        loop  == RetryLoop(1, sv, ids[idx], nfail)
        new   == IF first # -1 THEN first
                 ELSE IF loop[1] = 10 THEN prev ELSE loop[2]
        evs   == IF first # -1 THEN <<Ev("read", ids[idx], first)>>
                 ELSE <<Ev("read", ids[idx], first)>> \o loop[3]
    IN  [pos |-> [st.pos EXCEPT ![idx] = new],
         ang |-> [st.ang EXCEPT ![idx] = positionToAngle(idx, new)],
         ev  |-> st.ev \o evs,
         val |-> new,
         ms  |-> st.ms + (IF first # -1 THEN 0 ELSE loop[4])]

\* getCurrentPosition(): getServoPosition(i) for i = from .. until.
RECURSIVE getCurrentPosition(_, _, _, _, _, _)
getCurrentPosition(from, until, st, ids, sv, faults) ==
    IF from > until THEN st
    ELSE getCurrentPosition(from + 1, until,
             getServoPosition(from, st, ids, sv, faults[from]), ids, sv, faults)

\* The controller's view on entry to a call.
Entry ==
    [pos |-> current_position, ang |-> current_angle, ev |-> <<>>, val |-> 0,
     ms |-> 0]

CanCall == pc = "idle" /\ ncmd < MaxCmds

GetServoPosition(idx, nfail) ==
    /\ CanCall
    /\ LET r == getServoPosition(idx, Entry, id, servo, nfail)
       IN  /\ current_position' = r.pos
           /\ current_angle' = r.ang
           /\ log' = r.ev
           /\ ret' = [op |-> "getServoPosition", arg |-> idx, ik |-> -1,
                          val |-> r.val]
    /\ ncmd' = ncmd + 1
    /\ UNCHANGED <<id, isRelaxed, desired_position, desired_angle, W, pc,
                   remTime, currentTime, servo, torque>>

\* getServoAngle(idx): the angle getServoPosition(idx) leaves.
GetServoAngle(idx, nfail) ==
    /\ CanCall
    /\ LET r == getServoPosition(idx, Entry, id, servo, nfail)
       IN  /\ current_position' = r.pos
           /\ current_angle' = r.ang
           /\ log' = r.ev
           /\ ret' = [op |-> "getServoAngle", arg |-> idx, ik |-> -1,
                      val |-> r.ang[idx]]
    /\ ncmd' = ncmd + 1
    /\ UNCHANGED <<id, isRelaxed, desired_position, desired_angle, W, pc,
                   remTime, currentTime, servo, torque>>

\* getCurrentPosition() and getCurrentPosition(until_idx)
GetCurrentPosition(until_idx, faults) ==
    /\ CanCall
    /\ LET r == getCurrentPosition(0, until_idx, Entry, id, servo, faults)
       IN  /\ current_position' = r.pos
           /\ current_angle' = r.ang
           /\ log' = r.ev
    /\ ret' = [op |-> "getCurrentPosition", arg |-> until_idx, ik |-> -1,
               val |-> 0]
    /\ ncmd' = ncmd + 1
    /\ UNCHANGED <<id, isRelaxed, desired_position, desired_angle, W, pc,
                   remTime, currentTime, servo, torque>>

\* What an access past the end of a six-element member array meets.  The
\* layout of the class is in WidowX.h, which is not among the sources: a read
\* gives any value (Garbage samples them), a store lands either on memory the
\* model does not track or on the array that holds the goals of the same kind.
Garbage == {1, 200}

\* arr with one more element, g, at index idx.
Beyond(arr, idx, g) ==
    [i \in (DOMAIN arr) \cup {idx} |-> IF i \in DOMAIN arr THEN arr[i] ELSE g]

\* The six elements of the array proper.
Within(arr) == [i \in Idx |-> arr[i]]

\* getServoPosition(idx) with idx past the arrays: id[idx] reads g,
\* current_position[idx] reads pv, and with hit the two stores land on
\* desired_position and desired_angle.
GetServoPositionBeyond(name, idx, nfail, g, pv, hit) ==
    /\ CanCall
    /\ idx >= SERVOCOUNT
    /\ \E r \in {getServoPosition(idx,
                    [Entry EXCEPT !.pos = Beyond(current_position, idx, pv),
                                  !.ang = Beyond(current_angle, idx, 0)],
                    Beyond(id, idx, g), servo, nfail)} :
          /\ current_position' = Within(r.pos)
          /\ current_angle' = Within(r.ang)
          /\ desired_position' =
                IF hit THEN [desired_position EXCEPT ![idx - SERVOCOUNT] = r.pos[idx]]
                       ELSE desired_position
          /\ desired_angle' =
                IF hit THEN [desired_angle EXCEPT ![idx - SERVOCOUNT] = r.ang[idx]]
                       ELSE desired_angle
          /\ log' = r.ev
          /\ ret' = [op |-> name, arg |-> idx, ik |-> -1,
                     val |-> IF name = "getServoAngle" THEN r.ang[idx] ELSE r.val]
    /\ ncmd' = ncmd + 1
    /\ UNCHANGED <<id, isRelaxed, W, pc, remTime, currentTime, servo, torque>>

(***************************************************************************)
(* Ids and torque                                                          *)
(***************************************************************************)
\* The values a read of id[idx] can give; there is no test of idx before it.
IdAt(idx) == IF idx \in Idx THEN {id[idx]} ELSE Garbage

\* getId(idx): return id[idx]
GetId(idx) ==
    /\ CanCall
    /\ log' = <<>>
    /\ \E v \in IdAt(idx) :
          ret' = [op |-> "getId", arg |-> idx, ik |-> -1, val |-> v]
    /\ ncmd' = ncmd + 1
    /\ UNCHANGED <<id, isRelaxed, current_position, current_angle,
                   desired_position, desired_angle, W, pc, remTime, currentTime,
                   servo, torque>>

SetId(idx, newID) ==
    /\ CanCall
    /\ id' = IF idx < 0 \/ idx >= SERVOCOUNT THEN id ELSE [id EXCEPT ![idx] = newID]
    /\ log' = <<>>
    /\ ret' = [op |-> "setId", arg |-> idx, ik |-> -1, val |-> 0]
    /\ ncmd' = ncmd + 1
    /\ UNCHANGED <<isRelaxed, current_position, current_angle, desired_position,
                   desired_angle, W, pc, remTime, currentTime, servo, torque>>

\* A faulty variant of TorqueAll: the wrist roll and the gripper are left out.
TorqueAllArmOnly(ids, on) == [k \in 1 .. 4 |-> Ev("torque", ids[k - 1], on)]

\* Relax(id[i]) or TorqueOn(id[i]) for every channel, in channel order.
TorqueAll(ids, on) == [k \in 1 .. SERVOCOUNT |-> Ev("torque", ids[k - 1], on)]

RelaxServos ==
    /\ CanCall
    /\ log' = TorqueAll(id, 0)
    /\ torque' = Torqued(torque, log')
    /\ isRelaxed' = 1
    /\ ret' = [op |-> "relaxServos", arg |-> -1, ik |-> -1, val |-> 0]
    /\ ncmd' = ncmd + 1
    /\ UNCHANGED <<id, current_position, current_angle, desired_position,
                   desired_angle, W, pc, remTime, currentTime, servo>>

TorqueServos ==
    /\ CanCall
    /\ log' = TorqueAll(id, 1)
    /\ torque' = Torqued(torque, log')
    /\ isRelaxed' = 0
    /\ ret' = [op |-> "torqueServos", arg |-> -1, ik |-> -1, val |-> 0]
    /\ ncmd' = ncmd + 1
    /\ UNCHANGED <<id, current_position, current_angle, desired_position,
                   desired_angle, W, pc, remTime, currentTime, servo>>

(***************************************************************************)
(* Trajectories                                                            *)
(***************************************************************************)
\* A faulty variant of Active: both loops drive every channel.
ActiveAll(p) == SERVOCOUNT

\* Channels a trajectory loop drives: i < SERVOCOUNT - 1 in interpolate,
\* i < SERVOCOUNT in interpolateFromPose.
Active(p) == IF p = "interpolateFromPose" THEN SERVOCOUNT ELSE SERVOCOUNT - 1

\* moveCenter / moveHome / moveRest up to the first test of the while loop.
MovePose(name, pose, faults) ==
    /\ CanCall
    /\ LET r == getCurrentPosition(0, SERVOCOUNT - 1, Entry, id, servo, faults)
       IN  /\ current_position' = r.pos
           /\ current_angle' = r.ang
           /\ log' = r.ev
           /\ desired_position' = pose
           /\ W' = [i \in Idx |->
                      cubeInterpolation(<<r.pos[i], pose[i], 0, 0>>, DEFAULT_TIME)]
    /\ remTime' = DEFAULT_TIME
    /\ currentTime' = 0
    /\ pc' = "interpolateFromPose"
    /\ ret' = [op |-> name, arg |-> -1, ik |-> -1, val |-> 0]
    /\ ncmd' = ncmd + 1
    /\ UNCHANGED <<id, isRelaxed, desired_angle, servo, torque>>

\* A faulty variant of LoopRuns: while (currentTime <= remTime).
LoopRunsPastEnd == currentTime <= remTime

\* while (currentTime < remTime), both read as signed numbers.
LoopRuns == currentTime < remTime

\* One pass of the while loop: a SetPosition per driven channel, delay(10).
Tick ==
    /\ pc # "idle"
    /\ LoopRuns
    /\ \E goals \in {[k \in 1 .. Active(pc) |->
                         Ev("goal", id[k - 1],
                            PolyAt(W[k - 1], currentTime, remTime))]} :
           /\ log' = goals
           /\ servo' = Moved(servo, goals)
    /\ currentTime' = currentTime + TickMs
    /\ UNCHANGED <<id, isRelaxed, current_position, current_angle,
                   desired_position, desired_angle, W, pc, remTime, torque, ret,
                   ncmd>>

\* Past the loop: the exact goals, delay(3) and, for a pose, the refresh that
\* ends moveCenter / moveHome / moveRest.
Finish(faults) ==
    /\ pc # "idle"
    /\ ~LoopRuns
    /\ \E goals \in {[k \in 1 .. Active(pc) |->
                         Ev("goal", id[k - 1], desired_position[k - 1])]} :
       \E sv \in {Moved(servo, goals)} :
       \E r \in {IF pc = "interpolateFromPose"
                 THEN getCurrentPosition(0, SERVOCOUNT - 1, Entry, id, sv, faults)
                 ELSE Entry} :
           /\ servo' = sv
           /\ current_position' = r.pos
           /\ current_angle' = r.ang
           /\ log' = goals \o r.ev
    /\ pc' = "idle"
    /\ UNCHANGED <<id, isRelaxed, desired_position, desired_angle, W, remTime,
                   currentTime, torque, ret, ncmd>>

(***************************************************************************)
(* Startup: init(relax) is delay(10), checkVoltage(), moveRest(),          *)
(* delay(100) and, with relax, relaxServos().  While it runs, ret.arg is   *)
(* relax and ret.val the last value read from the voltage register.        *)
(***************************************************************************)
\* Values ax12GetRegister(1, AX_PRESENT_VOLTAGE, 1) can give: tenths of a volt,
\* or -1 for a read that failed.
Voltages == {-1, 0, 99, 100, 101, 120}

\* A faulty variant of TooLow: voltage < 10.0.
TooLowStrict(reg) == reg < 100

\* voltage <= 10.0 with voltage = reg / 10.0
TooLow(reg) == reg <= 100

\* A wait of ms milliseconds, as an entry of log.
Delay(ms) == Ev("delay", 0, ms)

\* init up to the first test of checkVoltage's loop.
InitStart(relax, reg) ==
    /\ CanCall
    /\ log' = <<Delay(10), Ev("voltage", 1, reg)>>
    /\ pc' = "checkVoltage"
    /\ ret' = [op |-> "init", arg |-> relax, ik |-> -1, val |-> reg]
    /\ ncmd' = ncmd + 1
    /\ UNCHANGED <<id, isRelaxed, current_position, current_angle,
                   desired_position, desired_angle, W, remTime, currentTime,
                   servo, torque>>

\* One pass of while (voltage <= 10.0): delay(1000) and the next read.
PollVoltage(reg) ==
    /\ pc = "checkVoltage"
    /\ TooLow(ret.val)
    /\ log' = <<Delay(1000), Ev("voltage", 1, reg)>>
    /\ ret' = [ret EXCEPT !.val = reg]
    /\ UNCHANGED <<id, isRelaxed, current_position, current_angle,
                   desired_position, desired_angle, W, pc, remTime, currentTime,
                   servo, torque, ncmd>>

\* Past the loop: checkVoltage returns and moveRest runs up to the first test
\* of interpolateFromPose's loop.
InitMoveRest(faults) ==
    /\ pc = "checkVoltage"
    /\ ~TooLow(ret.val)
    /\ \E r \in {getCurrentPosition(0, SERVOCOUNT - 1, Entry, id, servo, faults)} :
          /\ current_position' = r.pos
          /\ current_angle' = r.ang
          /\ log' = r.ev
          /\ desired_position' = Rest
          /\ W' = [i \in Idx |->
                     cubeInterpolation(<<r.pos[i], Rest[i], 0, 0>>, DEFAULT_TIME)]
    /\ remTime' = DEFAULT_TIME
    /\ currentTime' = 0
    /\ pc' = "interpolateFromPose"
    /\ UNCHANGED <<id, isRelaxed, desired_angle, servo, torque, ret, ncmd>>

\* Past moveRest's loop: the exact goals, the refresh that ends moveRest,
\* delay(100) and if (relax) relaxServos().
InitFinish(faults) ==
    /\ pc = "interpolateFromPose"
    /\ ret.op = "init"
    /\ currentTime >= remTime
    /\ \E goals \in {[k \in 1 .. SERVOCOUNT |->
                        Ev("goal", id[k - 1], desired_position[k - 1])]} :
       \E sv \in {Moved(servo, goals)} :
       \E r \in {getCurrentPosition(0, SERVOCOUNT - 1, Entry, id, sv, faults)} :
       \E off \in {IF ret.arg # 0 THEN TorqueAll(id, 0) ELSE <<>>} :
          /\ servo' = sv
          /\ current_position' = r.pos
          /\ current_angle' = r.ang
          /\ log' = goals \o r.ev \o <<Delay(100)>> \o off
          /\ torque' = Torqued(torque, off)
          /\ isRelaxed' = IF ret.arg # 0 THEN 1 ELSE isRelaxed
    /\ pc' = "idle"
    /\ UNCHANGED <<id, desired_position, desired_angle, W, remTime, currentTime,
                   ret, ncmd>>

(***************************************************************************)
(* Move to a point                                                         *)
(***************************************************************************)
\* if (isRelaxed) torqueServos();
Engage == IF isRelaxed # 0 THEN TorqueAll(id, 1) ELSE <<>>

\* The tail shared by moveArmQ4, moveArmGamma, moveArmRd and moveArmRdBase,
\* from the test of the IK result to the first test of interpolate's loop.
\* r is the state getCurrentPosition left, ik the solver's result; with
\* timed the call names its time and the trajectory gets what is left of it.
MoveArm(name, r, ik, timed, time) ==
    /\ log' = Engage \o r.ev
    /\ torque' = Torqued(torque, Engage)
    /\ isRelaxed' = 0
    /\ current_position' = r.pos
    /\ current_angle' = r.ang
    /\ desired_angle' = ik.angle
    /\ ret' = [op |-> name, arg |-> -1, ik |-> ik.fail, val |-> 0]
    /\ ncmd' = ncmd + 1
    /\ IF ik.fail # 0
         THEN UNCHANGED <<desired_position, W, pc, remTime, currentTime>>
         ELSE LET rem == IF timed THEN time - r.ms ELSE DEFAULT_TIME
                  dp  == [i \in Idx |->
                            IF i < SERVOCOUNT - 1
                              THEN angleToPosition(i, ik.angle[i])
                              ELSE desired_position[i]]
              IN  /\ desired_position' = dp
                  /\ W' = [i \in Idx |->
                             IF i < SERVOCOUNT - 1
                               THEN cubeInterpolation(<<r.pos[i], dp[i], 0, 0>>, rem)
                               ELSE W[i]]
                  /\ remTime' = rem
                  /\ currentTime' = 0
                  /\ pc' = "interpolate"
    /\ UNCHANGED <<id, servo>>

\* A faulty variant of Refreshed: getCurrentPosition(3), the arm joints only.
RefreshedArmOnly(faults) == getCurrentPosition(0, 3, Entry, id, servo, faults)

\* getCurrentPosition(), the refresh of all channels that opens a move.
Refreshed(faults) ==
    getCurrentPosition(0, SERVOCOUNT - 1, Entry, id, servo, faults)

MoveArmQ4(P, timed, time, faults, oob) ==
    /\ CanCall
    /\ \E r \in {Refreshed(faults)} :
       \E ik \in {getIK_Q4(P[1], P[2], P[3], r.ang, desired_angle, oob)} :
           MoveArm("moveArmQ4", r, ik, timed, time)

MoveArmGamma(P, gamma, timed, time, faults, oob) ==
    /\ CanCall
    /\ \E r \in {Refreshed(faults)} :
       \E ik \in {getIK_Gamma(P[1], P[2], P[3], gamma, r.ang, desired_angle, oob)} :
           MoveArm("moveArmGamma", r, ik, timed, time)

MoveArmRd(P, Rd, timed, time, faults, oob) ==
    /\ CanCall
    /\ \E r \in {Refreshed(faults)} :
       \E ik \in {getIK_Rd(P[1], P[2], P[3], Rd, r.ang, desired_angle, oob)} :
           MoveArm("moveArmRd", r, ik, timed, time)

MoveArmRdBase(P, RdBase, timed, time, faults, oob) ==
    /\ CanCall
    /\ \E r \in {Refreshed(faults)} :
       \E ik \in {getIK_RdBase(P[1], P[2], P[3], RdBase, r.ang, desired_angle, oob)} :
           MoveArm("moveArmRdBase", r, ik, timed, time)

\* A byte handed to ax12write.
Byte(v) == v % 256

AX_SYNC_WRITE == 131
AX_GOAL_POSITION_L == 30

\* A faulty variant of SyncBody: the high byte of a position goes first.
RECURSIVE SyncBodyHighFirst(_, _, _, _)
SyncBodyHighFirst(i, numServos, ids, dp) ==
    IF i >= numServos THEN <<>>
    ELSE <<Byte(ids[i]), Byte(dp[i] \div 256), Byte(dp[i] % 256)>>
         \o SyncBodyHighFirst(i + 1, numServos, ids, dp)

\* A faulty variant of SyncSum: the ids are left out of the checksum.
RECURSIVE SyncSumNoIds(_, _, _, _)
SyncSumNoIds(i, numServos, ids, dp) ==
    IF i >= numServos THEN 0
    ELSE (dp[i] % 256) + (dp[i] \div 256) + SyncSumNoIds(i + 1, numServos, ids, dp)

\* The bytes syncWrite(numServos) puts on the bus, in order.
RECURSIVE SyncBody(_, _, _, _)
SyncBody(i, numServos, ids, dp) ==
    IF i >= numServos THEN <<>>
    ELSE <<Byte(ids[i]), Byte(dp[i] % 256), Byte(dp[i] \div 256)>>
         \o SyncBody(i + 1, numServos, ids, dp)

RECURSIVE SyncSum(_, _, _, _)
SyncSum(i, numServos, ids, dp) ==
    IF i >= numServos THEN 0
    ELSE (dp[i] % 256) + (dp[i] \div 256) + ids[i] + SyncSum(i + 1, numServos, ids, dp)

syncWrite(numServos, ids, dp) ==
    LET length   == 4 + (numServos * 3)
        checksum == 254 + length + AX_SYNC_WRITE + 2 + AX_GOAL_POSITION_L
                    + SyncSum(0, numServos, ids, dp)
    IN  <<255, 255, 254, Byte(length), AX_SYNC_WRITE, AX_GOAL_POSITION_L, 2>>
        \o SyncBody(0, numServos, ids, dp)
        \o <<Byte(255 - (checksum % 256))>>

SyncEv(numServos, ids, dp) ==
    [op |-> "sync", bus |-> 254, val |-> numServos,
     bytes |-> syncWrite(numServos, ids, dp)]

\* setArmGamma entered with the view st of the servos: the elbow is read
\* (nfail leading reads failing) only when the solver gets past its reach
\* test.  The call is recorded under name with the argument arg.
SetArmGammaFrom(st, P, gamma, nfail, name, arg) ==
    /\ CanCall
    /\ \E far \in {ControllerUnreachable(P[1], P[2], P[3], gamma)} :
       \E r \in {IF far THEN [st EXCEPT !.ev = st.ev \o Engage]
                 ELSE getServoPosition(2, [st EXCEPT !.ev = st.ev \o Engage],
                                       id, servo, nfail)} :
       \E ik \in {IF far THEN IKFail(desired_angle)
                  ELSE getIK_Gamma_Controller(P[1], P[2], P[3], gamma,
                                              r.ang[2], desired_angle)} :
       \E dp \in {[i \in Idx |-> IF i < 4 THEN angleToPosition(i, ik.angle[i])
                                           ELSE desired_position[i]]} :
       \E out \in {IF ik.fail # 0 THEN <<>> ELSE <<SyncEv(4, id, dp)>>} :
           /\ log' = r.ev \o out
           /\ torque' = Torqued(torque, Engage)
           /\ servo' = Moved(servo, out)
           /\ current_position' = r.pos
           /\ current_angle' = r.ang
           /\ desired_angle' = ik.angle
           /\ desired_position' = IF ik.fail # 0 THEN desired_position ELSE dp
           /\ ret' = [op |-> name, arg |-> arg, ik |-> ik.fail, val |-> 0]
    /\ isRelaxed' = 0
    /\ ncmd' = ncmd + 1
    /\ UNCHANGED <<id, W, pc, remTime, currentTime>>

SetArmGamma(P, gamma, nfail) ==
    SetArmGammaFrom(Entry, P, gamma, nfail, "setArmGamma", -1)

\* A faulty variant of Clamp: the lower limit is not applied.
ClampHighOnly(lo, hi, x) == Min(hi, x)

\* max(lo, min(hi, x))
Clamp(lo, hi, x) == Max(lo, Min(hi, x))

\* movePointWithSpeed: d = <<dx, dy, dz, dg>> are the products vx * Kp * tf,
\* vy * Kp * tf, vz * Kp * tf and vg * Kg * tf, and lim = <<xy_lim, z_lim_down,
\* z_lim_up, gamma_lim>>.  The call is recorded with the target handed to
\* setArmGamma, followed by lim.
MovePointWithSpeed(d, lim, faults, nfail) ==
    \E st \in {getCurrentPosition(0, 3, Entry, id, servo, faults)} :
    \E pt \in {getPoint(st.ang)} :
    \E P \in {<<Clamp(-lim[1], lim[1], pt.point[1] + d[1]),
                Clamp(-lim[1], lim[1], pt.point[2] + d[2]),
                Clamp(lim[2], lim[3], pt.point[3] + d[3])>>} :
    \E gamma \in {Clamp(-lim[4], lim[4], pt.gamma + d[4])} :
        SetArmGammaFrom(st, P, gamma, nfail, "movePointWithSpeed",
                        P \o <<gamma>> \o lim)

(***************************************************************************)
(* Moving one servo                                                        *)
(***************************************************************************)
\* A faulty variant of Ramp: both loops stop one count before pos.
RampShort(b, curr, pos) ==
    IF curr < pos THEN [k \in 1 .. (pos - curr - 1) |-> Ev("goal", b, curr + k)]
    ELSE [k \in 1 .. (curr - pos - 1) |-> Ev("goal", b, curr - k)]

\* while (curr < pos) SetPosition(id[idx], ++curr); or the same downwards.
Ramp(b, curr, pos) ==
    IF curr < pos THEN [k \in 1 .. (pos - curr) |-> Ev("goal", b, curr + k)]
    ELSE [k \in 1 .. (curr - pos) |-> Ev("goal", b, curr - k)]

\* The body shared by moveServo2Angle and moveServo2Position once pos is known.
\* The call is recorded with pos, or with 0 if it returned at the index test.
MoveServo(name, idx, pos, nfail) ==
    /\ CanCall
    /\ IF idx < 0 \/ idx >= SERVOCOUNT
         THEN /\ log' = <<>>
              /\ UNCHANGED <<current_position, current_angle, servo>>
         ELSE LET r    == getServoPosition(idx, Entry, id, servo, nfail)
                  ramp == Ramp(id[idx], r.val, pos)
              IN  /\ current_position' = r.pos
                  /\ current_angle' = r.ang
                  /\ log' = r.ev \o ramp
                  /\ servo' = Moved(servo, ramp)
    /\ ret' = [op |-> name, arg |-> idx, ik |-> -1,
               val |-> IF idx < 0 \/ idx >= SERVOCOUNT THEN 0 ELSE pos]
    /\ ncmd' = ncmd + 1
    /\ UNCHANGED <<id, isRelaxed, desired_position, desired_angle, W, pc,
                   remTime, currentTime, torque>>

MoveServo2Angle(idx, angle, nfail) ==
    MoveServo("moveServo2Angle", idx,
              IF idx \in Idx THEN angleToPosition(idx, angle) ELSE 0, nfail)

MoveServo2Position(idx, pos, nfail) ==
    MoveServo("moveServo2Position", idx, pos, nfail)

\* A faulty variant of RawMax: every channel is taken for an MX servo.
RawMaxAllMX(idx) == 4095

\* lim_up of moveServoWithSpeed; also the last raw count of the channel.
RawMax(idx) == IF idx < 4 THEN 4095 ELSE 1023

\* moveServoWithSpeed, read with the parenthesis its clamp lacks closed at the
\* end of the statement and its setPosition as SetPosition: step is the
\* product speed * Ks * tf, rounded.
MoveServoWithSpeed(idx, step, nfail) ==
    /\ CanCall
    /\ \E r \in {getServoPosition(idx, Entry, id, servo, nfail)} :
       \E curr \in {Clamp(0, RawMax(idx), r.val + step)} :
           /\ current_position' = r.pos
           /\ current_angle' = r.ang
           /\ log' = r.ev \o <<Ev("goal", id[idx], curr)>>
           /\ servo' = Moved(servo, <<Ev("goal", id[idx], curr)>>)
           /\ ret' = [op |-> "moveServoWithSpeed", arg |-> idx, ik |-> -1,
                      val |-> curr]
    /\ ncmd' = ncmd + 1
    /\ UNCHANGED <<id, isRelaxed, desired_position, desired_angle, W, pc,
                   remTime, currentTime, torque>>

\* The step moveWrist, turnWrist and moveGrip take from the position read.
WristStep(posQ4, direction) ==
    IF direction # 0 THEN (IF posQ4 < 3080 THEN posQ4 + 50 ELSE posQ4)
    ELSE (IF posQ4 > 1020 THEN posQ4 - 50 ELSE posQ4)

TurnStep(posQ5, direction) ==
    IF direction # 0 THEN (IF posQ5 < 1013 THEN posQ5 + 10 ELSE 1023)
    ELSE (IF posQ5 > 10 THEN posQ5 - 10 ELSE 0)

\* A faulty variant of GripStep: no band around 512 in which the gripper is
\* sent to 512 itself.
GripStepNoBand(posQ6, close) ==
    IF close # 0 THEN (IF posQ6 > 10 THEN posQ6 - 10 ELSE 0)
    ELSE IF posQ6 > 512 THEN posQ6 - 10
    ELSE IF posQ6 < 512 THEN posQ6 + 10
    ELSE 512

GripStep(posQ6, close) ==
    IF close # 0 THEN (IF posQ6 > 10 THEN posQ6 - 10 ELSE 0)
    ELSE IF posQ6 > 522 THEN posQ6 - 10
    ELSE IF posQ6 < 502 THEN posQ6 + 10
    ELSE 512

\* posQ = getServoPosition(idx); step; SetPosition(id[idx], posQ)
Jog(name, idx, goal, r) ==
    /\ CanCall
    /\ current_position' = r.pos
    /\ current_angle' = r.ang
    /\ log' = r.ev \o <<Ev("goal", id[idx], goal)>>
    /\ servo' = Moved(servo, <<Ev("goal", id[idx], goal)>>)
    /\ ret' = [op |-> name, arg |-> idx, ik |-> -1, val |-> 0]
    /\ ncmd' = ncmd + 1
    /\ UNCHANGED <<id, isRelaxed, desired_position, desired_angle, W, pc,
                   remTime, currentTime, torque>>

MoveWrist(direction, nfail) ==
    LET r == getServoPosition(3, Entry, id, servo, nfail)
    IN  Jog("moveWrist", 3, WristStep(r.val, direction), r)

TurnWrist(direction, nfail) ==
    LET r == getServoPosition(4, Entry, id, servo, nfail)
    IN  Jog("turnWrist", 4, TurnStep(r.val, direction), r)

MoveGrip(close, nfail) ==
    LET r == getServoPosition(5, Entry, id, servo, nfail)
    IN  Jog("moveGrip", 5, GripStep(r.val, close), r)

\* SetPosition(id[idx], position)
SetServo2Position(idx, position) ==
    /\ CanCall
    /\ \E b \in IdAt(idx) : log' = <<Ev("goal", b, position)>>
    /\ servo' = Moved(servo, log')
    /\ ret' = [op |-> "setServo2Position", arg |-> idx, ik |-> -1, val |-> 0]
    /\ ncmd' = ncmd + 1
    /\ UNCHANGED <<id, isRelaxed, current_position, current_angle,
                   desired_position, desired_angle, W, pc, remTime, currentTime,
                   torque>>

(***************************************************************************)
(* Inputs of the calls                                                     *)
(***************************************************************************)
Pt(x, y, z) == <<x * LS, y * LS, z * LS>>

\* <<target, timed, time>>
Q4Calls ==
    {<<Pt(10, 0, 30), FALSE, 0>>, <<Pt(0, 0, 25), TRUE, 40>>,
     <<Pt(10, 0, 25), TRUE, 0>>, <<Pt(1000, 0, 0), FALSE, 0>>}

\* <<target, gamma, timed, time>>
GammaCalls ==
    {<<Pt(25, 0, 30), 0, FALSE, 0>>, <<Pt(35, 0, 0), 0, TRUE, 40>>,
     <<Pt(0, 0, 30), 0, TRUE, 40>>, <<Pt(-10, 0, 25), 0, TRUE, 500>>,
     <<Pt(0, 0, 20), HalfPi, FALSE, 0>>, <<Pt(1000, 0, 0), 0, TRUE, 40>>}

\* <<target, pitch, roll, timed, time>>: the rotation is roty(pitch) rotx(roll)
RdCalls ==
    {<<Pt(25, 0, 30), 0, 500000, TRUE, 40>>, <<Pt(0, 0, 30), 0, -APi + 1, TRUE, 40>>,
     <<Pt(0, 0, 20), HalfPi, 0, FALSE, 0>>}

OobAngles == {0, 1000000}

\* What a caller who wants a short ramp asks of servo idx: a target a few
\* counts from the position the controller will take the servo to be at.
NearBy(idx, nfail) ==
    IF idx \in Idx THEN getServoPosition(idx, Entry, id, servo, nfail).val ELSE 0

Next ==
    \/ \E idx \in {0, 3}, nfail \in {0, MaxFaults} : GetServoPosition(idx, nfail)
    \/ \E idx \in {2}, nfail \in {MaxFaults} : GetServoAngle(idx, nfail)
    \/ \E until_idx \in {SERVOCOUNT - 1}, f \in Faults \ {Zero6} :
           GetCurrentPosition(until_idx, f)
    \/ \E idx \in {2, 7}, newID \in {16} : SetId(idx, newID)
    \/ RelaxServos
    \/ TorqueServos
    \/ \E p \in Poses, f \in Faults : MovePose(p[1], p[2], f)
    \/ \E c \in Q4Calls, f \in Faults, o \in OobAngles :
           MoveArmQ4(c[1], c[2], c[3], f, o)
    \/ \E c \in GammaCalls, f \in Faults, o \in OobAngles :
           MoveArmGamma(c[1], c[2], c[3], c[4], f, o)
    \/ \E c \in RdCalls, f \in Faults, o \in OobAngles :
           MoveArmRd(c[1], MatMul(roty(c[2]), rotx(c[3])), c[4], c[5], f, o)
    \/ \E c \in RdCalls, f \in Faults, o \in OobAngles :
           MoveArmRdBase(c[1], MatMul(rotz(Atan2(c[1][2], c[1][1])),
                                      MatMul(roty(c[2]), rotx(c[3]))),
                         c[4], c[5], f, o)
    \/ \E c \in GammaCalls, nfail \in {0, MaxFaults} :
           SetArmGamma(c[1], c[2], nfail)
    \/ \E idx \in {0, 6}, d \in {-2, 3}, nfail \in {0, MaxFaults} :
           MoveServo2Position(idx, NearBy(idx, nfail) + d, nfail)
    \/ \E idx \in {1, -1}, d \in {-2, 3} :
           MoveServo2Angle(idx, positionToAngle(idx, NearBy(idx, 0) + d), 0)
    \/ \E direction \in {0, 1}, nfail \in {0, MaxFaults} :
           MoveWrist(direction, nfail)
    \/ \E direction \in {0, 1} : TurnWrist(direction, 0)
    \/ \E close \in {0, 1} : MoveGrip(close, 0)
    \/ \E idx \in {3}, position \in {3120, 5000} :
           SetServo2Position(idx, position)
    \/ \E idx \in {SERVOCOUNT}, position \in {2000} :
           SetServo2Position(idx, position)
    \/ \E idx \in {0, SERVOCOUNT} : GetId(idx)
    \/ \E idx \in {SERVOCOUNT}, nfail \in {0}, g \in Garbage, pv \in Garbage,
          hit \in BOOLEAN :
           GetServoPositionBeyond("getServoPosition", idx, nfail, g, pv, hit)
    \/ Tick
    \/ \E f \in Faults : Finish(f)

Spec == Init /\ [][Next]_vars

(***************************************************************************)
(* Reads alone: every number of failing reads, on every channel, with the  *)
(* servos moved and an id changed so that the cache and the bus differ.    *)
(***************************************************************************)
NextRead ==
    \/ \E idx \in Idx, nfail \in 0 .. MaxFaults : GetServoPosition(idx, nfail)
    \/ \E idx \in {0, 4}, position \in {70, 1000} :
           SetServo2Position(idx, position)
    \/ \E idx \in {0}, newID \in {16} : SetId(idx, newID)

SpecRead == Init /\ [][NextRead]_vars

(***************************************************************************)
(* syncWrite alone, on sampled ids and goal positions.                     *)
(***************************************************************************)
SyncIds ==
    {[i \in Idx |-> i + 1],
     [i \in Idx |-> 253 - i],
     [i \in Idx |-> CASE i = 0 -> 0 [] i = 1 -> 253 [] i = 2 -> 128
                      [] i = 3 -> 77 [] i = 4 -> 200 [] OTHER -> 1]}

SyncPositions ==
    {[i \in Idx |-> IF i < 4 THEN 100 * (i + 1) ELSE 512],
     [i \in Idx |-> 4095 - i],
     [i \in Idx |-> 254 + i],
     Zero6}

InitSync ==
    /\ id \in SyncIds
    /\ desired_position \in SyncPositions
    /\ isRelaxed = 0
    /\ current_position = Zero6
    /\ current_angle = Zero6
    /\ desired_angle = Zero6
    /\ W = [i \in Idx |-> <<0, 0, 0, 0>>]
    /\ pc = "idle"
    /\ remTime = 0
    /\ currentTime = 0
    /\ servo = InitServo
    /\ torque = [b \in 1 .. 6 |-> -1]
    /\ log = <<>>
    /\ ret = [op |-> "WidowX", arg |-> -1, ik |-> -1, val |-> 0]
    /\ ncmd = 0

SyncWrite(numServos) ==
    /\ CanCall
    /\ log' = <<SyncEv(numServos, id, desired_position)>>
    /\ servo' = Moved(servo, log')
    /\ ret' = [op |-> "syncWrite", arg |-> numServos, ik |-> -1, val |-> 0]
    /\ ncmd' = ncmd + 1
    /\ UNCHANGED <<id, isRelaxed, current_position, current_angle,
                   desired_position, desired_angle, W, pc, remTime, currentTime,
                   torque>>

NextSync == \E numServos \in 1 .. SERVOCOUNT : SyncWrite(numServos)

SpecSync == InitSync /\ [][NextSync]_vars

(***************************************************************************)
(* cubeInterpolation alone, as interpolate calls it for one channel:       *)
(* params = (current_position[i], desired_position[i], 0, 0), time =       *)
(* remTime.                                                                *)
(***************************************************************************)
CubePositions == {0, 1, 1023, 2048, 4095}
CubeTimes == {1, 3, 40, 2000, 32767}

InitCube ==
    /\ \E start \in CubePositions : current_position = [i \in Idx |-> start]
    /\ \E goal \in CubePositions : desired_position = [i \in Idx |-> goal]
    /\ remTime \in CubeTimes
    /\ id = [i \in Idx |-> i + 1]
    /\ isRelaxed = 0
    /\ current_angle = Zero6
    /\ desired_angle = Zero6
    /\ W = [i \in Idx |-> <<0, 0, 0, 0>>]
    /\ pc = "idle"
    /\ currentTime = 0
    /\ servo = InitServo
    /\ torque = [b \in 1 .. 6 |-> -1]
    /\ log = <<>>
    /\ ret = [op |-> "WidowX", arg |-> -1, ik |-> -1, val |-> 0]
    /\ ncmd = 0

CubeInterpolation(i) ==
    /\ CanCall
    /\ W' = [W EXCEPT ![i] =
               cubeInterpolation(<<current_position[i], desired_position[i], 0, 0>>,
                                 remTime)]
    /\ log' = <<>>
    /\ ret' = [op |-> "cubeInterpolation", arg |-> i, ik |-> -1, val |-> 0]
    /\ ncmd' = ncmd + 1
    /\ UNCHANGED <<id, isRelaxed, current_position, current_angle,
                   desired_position, desired_angle, pc, remTime, currentTime,
                   servo, torque>>

NextCube == \E i \in Idx : CubeInterpolation(i)

SpecCube == InitCube /\ [][NextCube]_vars

(***************************************************************************)
(* init alone, on a supply whose voltage reads come in any order.          *)
(***************************************************************************)
NextInit ==
    \/ \E relax \in {0, 1}, reg \in Voltages : InitStart(relax, reg)
    \/ \E reg \in Voltages : PollVoltage(reg)
    \/ \E f \in Faults : InitMoveRest(f)
    \/ Tick
    \/ \E f \in Faults : InitFinish(f)

SpecInit == Init /\ [][NextInit]_vars

(***************************************************************************)
(* The two conversions alone: angleToPosition applied to an angle and       *)
(* positionToAngle to its result.  The angle is that of a raw count, every  *)
(* count of the channel's family in turn, or lies off one by up to half a   *)
(* count.                                                                   *)
(***************************************************************************)
\* Angle units per raw count of channel idx.
UnitsPerCount(idx) == IF idx < 4 THEN MXUnitsPerCount ELSE AXUnitsPerCount

\* <<count, distance of the angle from the angle of the count>>
ConvInputs(idx) ==
    {<<p, 0>> : p \in 0 .. RawMax(idx)}
    \cup {<<p, d>> : p \in {0, 1, RawMax(idx) \div 2, RawMax(idx) \div 2 + 1,
                          RawMax(idx)},
                    d \in {-(UnitsPerCount(idx) \div 2), -1, 1,
                           UnitsPerCount(idx) \div 2 - 1}}

InitConv ==
    /\ \E idx \in Idx : \E c \in ConvInputs(idx) :
          /\ current_position = [Zero6 EXCEPT ![idx] = c[1]]
          /\ current_angle =
                [Zero6 EXCEPT ![idx] = positionToAngle(idx, c[1]) + c[2]]
          /\ ret = [op |-> "WidowX", arg |-> idx, ik |-> -1, val |-> 0]
    /\ id = [i \in Idx |-> i + 1]
    /\ isRelaxed = 0
    /\ desired_position = Zero6
    /\ desired_angle = Zero6
    /\ W = [i \in Idx |-> <<0, 0, 0, 0>>]
    /\ pc = "idle"
    /\ remTime = 0
    /\ currentTime = 0
    /\ servo = InitServo
    /\ torque = [b \in 1 .. 6 |-> -1]
    /\ log = <<>>
    /\ ncmd = 0

\* desired_position[idx] = angleToPosition(idx, current_angle[idx]);
\* desired_angle[idx] = positionToAngle(idx, desired_position[idx])
RoundTrip(idx) ==
    /\ CanCall
    /\ ret.op = "WidowX"
    /\ ret.arg = idx
    /\ \E p \in {angleToPosition(idx, current_angle[idx])} :
          /\ desired_position' = [desired_position EXCEPT ![idx] = p]
          /\ desired_angle' = [desired_angle EXCEPT ![idx] = positionToAngle(idx, p)]
          /\ ret' = [op |-> "angleToPosition", arg |-> idx, ik |-> -1, val |-> p]
    /\ log' = <<>>
    /\ ncmd' = ncmd + 1
    /\ UNCHANGED <<id, isRelaxed, current_position, current_angle, W, pc,
                   remTime, currentTime, servo, torque>>

NextConv == \E idx \in Idx : RoundTrip(idx)

SpecConv == InitConv /\ [][NextConv]_vars

(***************************************************************************)
(* The solvers alone: one call of one solver from a pose of the arm.  The   *)
(* call leaves its arguments <<Px, Py, Pz, gamma>> in ret.arg.              *)
(***************************************************************************)
\* Targets farther from the shoulder than the arm is long, some of them beside
\* targets that are farther than that from the base only.
ReachTargets ==
    {Pt(1000, 0, 0), Pt(0, 0, 50), Pt(0, 0, 52), Pt(42, 0, 0), Pt(31, -31, 9),
     Pt(-25, 25, 40), Pt(10, 0, 48), Pt(0, 30, -22), Pt(25, 0, 30),
     Pt(0, 0, 22), Pt(0, 0, 18)}

\* The pose of the arm is one of a few poses <<q1, q2, q3, q4>>.
InitReach ==
    /\ \E q1 \in {0, 698220, -2094660}, q2 \in {-500000, 0, 800000},
          q3 \in {-1000000, 0, 1091416, 1900000},
          q4 \in {-1500000, -500000, 0, 1000000} :
          current_angle = [i \in Idx |-> <<q1, q2, q3, q4, 0, 0>>[i + 1]]
    /\ id = [i \in Idx |-> i + 1]
    /\ isRelaxed = 0
    /\ current_position = Zero6
    /\ desired_position = Zero6
    /\ desired_angle = Zero6
    /\ W = [i \in Idx |-> <<0, 0, 0, 0>>]
    /\ pc = "idle"
    /\ remTime = 0
    /\ currentTime = 0
    /\ servo = InitServo
    /\ torque = [b \in 1 .. 6 |-> -1]
    /\ log = <<>>
    /\ ret = [op |-> "WidowX", arg |-> -1, ik |-> -1, val |-> 0]
    /\ ncmd = 0

\* One call of a solver: ik is its result.
Solved(name, P, gamma, ik) ==
    /\ CanCall
    /\ desired_angle' = ik.angle
    /\ ret' = [op |-> name, arg |-> <<P[1], P[2], P[3], gamma>>, ik |-> ik.fail,
               val |-> 0]
    /\ log' = <<>>
    /\ ncmd' = ncmd + 1
    /\ UNCHANGED <<id, isRelaxed, current_position, current_angle,
                   desired_position, W, pc, remTime, currentTime, servo, torque>>

GetIK_Q4(P, oob) ==
    /\ ret.op = "WidowX"
    /\ \E ik \in {getIK_Q4(P[1], P[2], P[3], current_angle, desired_angle, oob)} :
           Solved("getIK_Q4", P, 0, ik)

GetIK_Gamma(P, gamma, oob) ==
    /\ ret.op = "WidowX"
    /\ \E ik \in {getIK_Gamma(P[1], P[2], P[3], gamma, current_angle, desired_angle,
                              oob)} :
           Solved("getIK_Gamma", P, gamma, ik)

\* The elbow angle getServoAngle(2) returns is the pose's.
GetIK_Gamma_Controller(P, gamma) ==
    /\ ret.op = "WidowX"
    /\ \E ik \in {IF ControllerUnreachable(P[1], P[2], P[3], gamma)
                    THEN IKFail(desired_angle)
                    ELSE getIK_Gamma_Controller(P[1], P[2], P[3], gamma,
                                                current_angle[2], desired_angle)} :
           Solved("getIK_Gamma_Controller", P, gamma, ik)

\* The rotation asked for is roty(pitch) rotx(roll).
GetIK_Rd(P, pitch, roll, oob) ==
    /\ ret.op = "WidowX"
    /\ \E ik \in {getIK_Rd(P[1], P[2], P[3], MatMul(roty(pitch), rotx(roll)),
                           current_angle, desired_angle, oob)} :
           Solved("getIK_Rd", P, pitch, ik)

GetIK_RdBase(P, pitch, roll, oob) ==
    /\ ret.op = "WidowX"
    /\ \E ik \in {getIK_RdBase(P[1], P[2], P[3],
                               MatMul(rotz(Atan2(P[2], P[1])),
                                      MatMul(roty(pitch), rotx(roll))),
                               current_angle, desired_angle, oob)} :
           Solved("getIK_RdBase", P, pitch, ik)

NextReach ==
    \/ \E P \in ReachTargets : GetIK_Q4(P, 0)
    \/ \E P \in ReachTargets, gamma \in {-HalfPi, -500000, 0, HalfPi} : GetIK_Gamma(P, gamma, 0)
    \/ \E pt \in {getPoint(current_angle)} : GetIK_Gamma(pt.point, pt.gamma, 0)
    \/ \E P \in ReachTargets, gamma \in {-HalfPi, -500000, 0, HalfPi} :
           GetIK_Gamma_Controller(P, gamma)
    \/ \E P \in ReachTargets, pitch \in {-500000, HalfPi} :
           GetIK_Rd(P, pitch, 500000, 0)
    \/ \E P \in ReachTargets, pitch \in {-500000, HalfPi} :
           GetIK_RdBase(P, pitch, 500000, 0)

SpecReach == InitReach /\ [][NextReach]_vars

(***************************************************************************)
(* Jogging: the two velocity commands, on servos that direct writes have    *)
(* moved and on an arm that may be relaxed.                                 *)
(***************************************************************************)
NextJog ==
    \/ \E idx \in Idx, step \in {-2000000000, -3, 0, 40, 2000000000},
          nfail \in {0, MaxFaults} :
           MoveServoWithSpeed(idx, step, nfail)
    \/ \E d \in {<<0, 0, 0, 0>>, <<-100000, 0, 0, 0>>, <<300, 0, -200, 100000>>,
                 <<-500, 500, 300, -3000000>>, <<0, 100000, 100000, 0>>},
          lim \in {<<30 * LS, 5 * LS, 35 * LS, HalfPi>>,
                   <<40 * LS, -5 * LS, 45 * LS, APi>>},
          f \in {Zero6, [i \in Idx |-> IF i = 1 THEN MaxFaults ELSE 0]},
          nfail \in {0, MaxFaults} :
           MovePointWithSpeed(d, lim, f, nfail)
    \/ \E idx \in {1, 2}, position \in {1500, 2600} :
           SetServo2Position(idx, position)
    \/ RelaxServos

SpecJog == Init /\ [][NextJog]_vars

(***************************************************************************)
(* The gripper key held: the gripper stands anywhere in its range when the  *)
(* controller is constructed, moveGrip is called, and the servo is at the   *)
(* commanded position before the next call.                                 *)
(***************************************************************************)
\* Calls of moveGrip that take the gripper from one end of its range to rest.
MaxGripCalls == 103

InitGrip ==
    /\ id = [i \in Idx |-> i + 1]
    /\ isRelaxed = 0
    /\ current_position = Zero6
    /\ current_angle = Zero6
    /\ desired_position = Zero6
    /\ desired_angle = Zero6
    /\ W = [i \in Idx |-> <<0, 0, 0, 0>>]
    /\ pc = "idle"
    /\ remTime = 0
    /\ currentTime = 0
    /\ \E p \in 0 .. 1023 : servo = [InitServo EXCEPT ![6] = p]
    /\ torque = [b \in 1 .. 6 |-> -1]
    /\ log = <<>>
    /\ ret = [op |-> "WidowX", arg |-> -1, ik |-> -1, val |-> 0]
    /\ ncmd = 0

NextGrip == \E close \in {0, 1} : MoveGrip(close, 0)

SpecGrip == InitGrip /\ [][NextGrip]_vars

(***************************************************************************)
(* One servo moved to a position or to an angle some counts up or down from *)
(* where the controller will take it to be, or to that very position, with  *)
(* its reads answered or not.                                               *)
(***************************************************************************)
NextRamp ==
    \/ \E idx \in {0, 5}, d \in {-2, 0, 3}, nfail \in {0, MaxFaults} :
           MoveServo2Position(idx, NearBy(idx, nfail) + d, nfail)
    \/ \E idx \in {1, 4}, d \in {-2, 0, 3}, nfail \in {0, MaxFaults} :
           MoveServo2Angle(idx, positionToAngle(idx, NearBy(idx, nfail) + d),
                           nfail)

SpecRamp == Init /\ [][NextRamp]_vars

(***************************************************************************)
(* One trajectory, of a pose or of a move to a point, with the default      *)
(* duration, a short one, none, or less than none.  The clock advances and  *)
(* the loop is left once its test fails.                                    *)
(***************************************************************************)
NextTraj ==
    \/ \E p \in Poses, f \in Faults : ncmd = 0 /\ MovePose(p[1], p[2], f)
    \/ \E c \in Q4Calls \cup {<<Pt(0, 0, 25), TRUE, -20>>}, f \in Faults,
          o \in OobAngles :
           ncmd = 0 /\ MoveArmQ4(c[1], c[2], c[3], f, o)
    \/ Tick
    \/ \E f \in Faults : Finish(f)

SpecTraj ==
    /\ Init
    /\ [][NextTraj]_vars
    /\ WF_vars(Tick)
    /\ WF_vars(\E f \in Faults : Finish(f))

(***************************************************************************)
(* Properties                                                              *)
(***************************************************************************)
\* C1: getServoPosition(idx) reads the bus at most 10 times, stopping at the
\* first valid value: after N <= 9 failed reads and a valid read v it returns
\* v and leaves v in current_position[idx]; after 10 failed reads it returns
\* and leaves the value current_position[idx] held before the call.
C1_ReadRetryFallback ==
    [][(ret'.op = "getServoPosition" /\ ncmd' = ncmd + 1) =>
         LET idx == ret'.arg
             k   == Len(log')
         IN  /\ k >= 1 /\ k <= 10
             /\ \A j \in 1 .. k : log'[j].op = "read" /\ log'[j].bus = id[idx]
             /\ \A j \in 1 .. (k - 1) : log'[j].val = -1
             /\ IF log'[k].val # -1
                  THEN /\ ret'.val = log'[k].val
                       /\ current_position'[idx] = log'[k].val
                  ELSE /\ k = 10
                       /\ ret'.val = current_position[idx]
                       /\ current_position'[idx] = current_position[idx]]_vars

\* C1, its case: ten failed reads answered with a cached value that an earlier
\* call had read.
C1_FallbackReached ==
    /\ ret.op = "getServoPosition"
    /\ Len(log) = 10
    /\ log[10].val = -1
    /\ ret.val > 0
    /\ current_position[ret.arg] = ret.val

\* C2: in every state reachable from construction, no channel's
\* current_position is the failure value -1, whatever reads failed.
C2_NeverSentinel == \A idx \in Idx : current_position[idx] # -1

\* C2, its case: a read operation has returned after all ten reads of some
\* channel failed.
C2_AllReadsFailed ==
    /\ ret.op \in {"getServoPosition", "getServoAngle", "getCurrentPosition"}
    /\ \E k \in 1 .. Len(log) :
          /\ k + 9 <= Len(log)
          /\ \A j \in k .. (k + 9) :
                log[j].op = "read" /\ log[j].bus = log[k].bus /\ log[j].val = -1

\* C3: a move-to-point command whose IK solve fails sends no goal position
\* (no SetPosition, no sync-write frame), starts no trajectory, and leaves
\* desired_angle and desired_position as they were.
C3_FailedSolveChangesNothing ==
    [][(/\ ncmd' = ncmd + 1
        /\ ret'.op \in {"moveArmQ4", "moveArmGamma", "moveArmRd", "moveArmRdBase",
                        "setArmGamma"}
        /\ ret'.ik # 0) =>
         /\ \A k \in 1 .. Len(log') : log'[k].op \notin {"goal", "sync"}
         /\ pc' = "idle"
         /\ servo' = servo
         /\ desired_angle' = desired_angle
         /\ desired_position' = desired_position]_vars

\* C3, its case: a solve has failed while desired_angle and desired_position
\* held the result of an earlier successful solve.
C3_FailureAfterSuccess ==
    /\ ret.op \in {"moveArmQ4", "moveArmGamma", "moveArmRd", "moveArmRdBase",
                   "setArmGamma"}
    /\ ret.ik # 0
    /\ desired_angle # Zero6
    /\ desired_position # Zero6

\* C4 (as claimed): whenever a goal position is written, isRelaxed = 0 and no
\* channel's servo has been left relaxed by the last relaxServos().
C4_TorqueEngagedAtWrite ==
    (\E k \in 1 .. Len(log) : log[k].op \in {"goal", "sync"}) =>
        /\ isRelaxed = 0
        /\ \A b \in DOMAIN torque : torque[b] # 0

\* C5 (as claimed): after every successful IK solve desired_angle[1],
\* desired_angle[2] and desired_angle[3] lie within q2Lim, q3Lim and q4Lim.
C5_AllThreeLimits ==
    (/\ ret.op \in {"moveArmQ4", "moveArmGamma", "moveArmRd", "moveArmRdBase",
                    "setArmGamma"}
     /\ ret.ik = 0) =>
        /\ -limPi_2 <= desired_angle[1] /\ desired_angle[1] <= limPi_2
        /\ -limPi_2 <= desired_angle[2] /\ desired_angle[2] <= lim5Pi_6
        /\ -((11 * APi) \div 18) <= desired_angle[3]
        /\ desired_angle[3] <= limPi_2

\* C5 (amended): after every successful IK solve desired_angle[1] lies within
\* q2Lim and desired_angle[2] within q3Lim; desired_angle[3] lies within q4Lim
\* after the gamma solvers (getIK_Gamma, getIK_Gamma_Controller, getIK_Rd,
\* getIK_RdBase), and after getIK_Q4 it is the wrist angle last read,
\* current_angle[3], whatever that is.
C5_LimitsOfSolvedJoints ==
    (/\ ret.op \in {"moveArmQ4", "moveArmGamma", "moveArmRd", "moveArmRdBase",
                    "setArmGamma"}
     /\ ret.ik = 0) =>
        /\ -limPi_2 <= desired_angle[1] /\ desired_angle[1] <= limPi_2
        /\ -limPi_2 <= desired_angle[2] /\ desired_angle[2] <= lim5Pi_6
        /\ IF ret.op = "moveArmQ4"
             THEN desired_angle[3] = current_angle[3]
             ELSE /\ -((11 * APi) \div 18) <= desired_angle[3]
                  /\ desired_angle[3] <= limPi_2

\* C5, its case: getIK_Q4 has succeeded with a wrist angle outside q4Lim.
C5_HeldWristOutsideLimit ==
    /\ ret.op = "moveArmQ4"
    /\ ret.ik = 0
    /\ (desired_angle[3] > limPi_2 \/ desired_angle[3] < -((11 * APi) \div 18))

\* C6: syncWrite(N) puts 8 + 3N bytes on the bus: 0xFF, 0xFF, 0xFE, 4 + 3N,
\* the sync-write instruction 0x83, the goal-position register 0x1E, the width
\* 2, then for i = 0 .. N-1 the id, low byte and high byte of channel i, then
\* one checksum byte; for ids 1, 2, 3, 4 and positions 100, 200, 300, 400 the
\* frame is FF FF FE 10 83 1E 02 01 64 00 02 C8 00 03 2C 01 04 90 01 5A.
C6_SyncFrameLayout ==
    ret.op = "syncWrite" =>
        LET N == ret.arg
            b == log[1].bytes
        IN  /\ Len(log) = 1
            /\ log[1].op = "sync"
            /\ Len(b) = 8 + 3 * N
            /\ SubSeq(b, 1, 7) = <<255, 255, 254, 4 + 3 * N, 131, 30, 2>>
            /\ \A i \in 0 .. (N - 1) :
                  /\ b[8 + 3 * i] = id[i]
                  /\ b[9 + 3 * i] = desired_position[i] % 256
                  /\ b[10 + 3 * i] = desired_position[i] \div 256
            /\ b[8 + 3 * N] \in 0 .. 255
            /\ (/\ N = 4
                /\ \A i \in 0 .. 3 :
                      id[i] = i + 1 /\ desired_position[i] = 100 * (i + 1)) =>
                   b = <<255, 255, 254, 16, 131, 30, 2, 1, 100, 0, 2, 200, 0,
                         3, 44, 1, 4, 144, 1, 90>>

\* C6, its case: syncWrite(4) has run with ids 1, 2, 3, 4 and positions 100,
\* 200, 300, 400.
C6_ConcreteFrameSent ==
    /\ ret.op = "syncWrite"
    /\ ret.arg = 4
    /\ \A i \in 0 .. 3 : id[i] = i + 1 /\ desired_position[i] = 100 * (i + 1)

\* The sum of the bytes b[from .. to].
RECURSIVE SumBytes(_, _, _)
SumBytes(b, from, to) ==
    IF from > to THEN 0 ELSE b[from] + SumBytes(b, from + 1, to)

\* C7: for N in 1 .. 6, ids in 0 .. 253 and positions in 0 .. 4095, the last
\* byte of the frame of syncWrite(N) is 0xFF minus the sum, mod 256, of the
\* bytes between the two leading 0xFF and the checksum.
C7_ChecksumOfFrame ==
    ret.op = "syncWrite" =>
        LET b == log[1].bytes
        IN  b[Len(b)] = 255 - (SumBytes(b, 3, Len(b) - 1) % 256)

\* C7, its case: syncWrite(6) has run with an id of 253 and a position of
\* 4095 in the frame.
C7_BoundaryFrameSent ==
    /\ ret.op = "syncWrite"
    /\ ret.arg = 6
    /\ \E i \in Idx : id[i] = 253
    /\ \E i \in Idx : desired_position[i] = 4095

\* C8: for a start, a goal and a time T > 0, the coefficients cubeInterpolation
\* computes from (start, goal, 0, 0) give p(0) = start, p'(0) = 0, p(T) = goal
\* and p'(T) = 0.  With W[i] = <<n0, n1, n2, n3>> standing for the polynomial
\* n0 + n1 t + n2 (t/T)^2 + n3 (t/T)^3: p(T) = n0 + n1 T + n2 + n3 and
\* T p'(T) = n1 T + 2 n2 + 3 n3.
C8_CubicBoundaryConditions ==
    (ret.op = "cubeInterpolation" /\ remTime > 0) =>
        LET i == ret.arg
            w == W[i]
        IN  /\ w[1] = current_position[i]
            /\ w[2] = 0
            /\ w[1] + w[2] * remTime + w[3] + w[4] = desired_position[i]
            /\ w[2] * remTime + 2 * w[3] + 3 * w[4] = 0
            /\ PolyAt(w, 0, remTime) = current_position[i]
            /\ PolyAt(w, remTime, remTime) = desired_position[i]

\* C8, its case: the coefficients of a move between two different positions
\* in more than one millisecond have been computed.
C8_CubicComputed ==
    /\ ret.op = "cubeInterpolation"
    /\ remTime > 1
    /\ current_position[ret.arg] # desired_position[ret.arg]
    /\ W[ret.arg][3] # 0

C10_WritesOnlySolvedJoints ==
    \A k \in 1 .. Len(log) :
       LET solved == CASE ret.op = "moveArmQ4" -> 3
                       [] ret.op \in {"moveArmGamma", "setArmGamma"} -> 4
                       [] ret.op \in {"moveArmRd", "moveArmRdBase"} -> 5
                       [] OTHER -> SERVOCOUNT
           written == IF log[k].op = "goal" THEN {log[k].bus}
                      ELSE IF log[k].op = "sync"
                        THEN {log[k].bytes[5 + 3 * j] : j \in 1 .. log[k].val}
                      ELSE {}
       IN  written \subseteq {id[i] : i \in 0 .. (solved - 1)}

\* C11 (as claimed): after a successful getIK_Q4 or getIK_Gamma the joints
\* the solver does not solve are carried over from the same joint:
\* desired_angle[4] = current_angle[4] and desired_angle[5] = current_angle[5].
C11_UnsolvedJointsCarriedOver ==
    (ret.op \in {"moveArmQ4", "moveArmGamma"} /\ ret.ik = 0) =>
        /\ desired_angle[4] = current_angle[4]
        /\ desired_angle[5] = current_angle[5]

\* C12 (as claimed): a call of setId, getId, moveServo2Angle,
\* moveServo2Position, setServo2Position, moveServoWithSpeed, getServoPosition
\* or getServoAngle with an index outside 0 .. 5 puts nothing on the bus and
\* leaves the controller's state and the servos as they were.
C12_BadIndexIsNoOp ==
    [][(/\ ncmd' = ncmd + 1
        /\ ret'.op \in {"setId", "getId", "moveServo2Angle", "moveServo2Position",
                        "setServo2Position", "moveServoWithSpeed",
                        "getServoPosition", "getServoAngle"}
        /\ ret'.arg \notin Idx) =>
         /\ log' = <<>>
         /\ UNCHANGED <<id, isRelaxed, current_position, current_angle,
                        desired_position, desired_angle, W, pc, remTime,
                        currentTime, servo, torque>>]_vars

C14_ConversionRoundTrip ==
    ret.op = "angleToPosition" =>
        LET idx == ret.arg
            a   == current_angle[idx]
            p   == current_position[idx]
        IN  /\ Abs(desired_angle[idx] - a)
                  <= (IF idx < 4 THEN MXUnitsPerCount ELSE AXUnitsPerCount)
            /\ a = positionToAngle(idx, p) => desired_position[idx] = p

\* C14, its case: the last count of the reversed channel 1 has been taken to
\* its angle, which is negative, and back.
C14_ReversedChannelAtEnd ==
    /\ ret.op = "angleToPosition"
    /\ ret.arg = 1
    /\ current_position[1] = 4095
    /\ current_angle[1] < 0
    /\ current_angle[1] = positionToAngle(1, 4095)
    /\ desired_position[1] = 4095

\* C15 (as claimed): every solver fails on every target whose distance from
\* the base exceeds D + L3 + L4.
C15_BeyondReachFromBaseFails ==
    (/\ ret.op \in {"getIK_Q4", "getIK_Gamma", "getIK_Gamma_Controller",
                    "getIK_Rd", "getIK_RdBase"}
     /\ Hypot(Hypot(ret.arg[1], ret.arg[2]), ret.arg[3]) > D + L3 + L4) => ret.ik = 1

\* C15 (amended): every solver fails on every target whose distance from the
\* shoulder, the point of the base axis at height L0, exceeds D + L3 + L4,
\* whatever the wrist pitch held, the gamma or the rotation asked for.
C15_BeyondReachFromShoulderFails ==
    (/\ ret.op \in {"getIK_Q4", "getIK_Gamma", "getIK_Gamma_Controller",
                    "getIK_Rd", "getIK_RdBase"}
     /\ Hypot(Hypot(ret.arg[1], ret.arg[2]), ret.arg[3] - L0) > D + L3 + L4) =>
        /\ ret.ik = 1
        /\ desired_angle = Zero6

\* C15, its case: getIK_Gamma_Controller has been asked for the target
\* (1000, 0, 0).
C15_FarTargetTried ==
    /\ ret.op = "getIK_Gamma_Controller"
    /\ ret.arg[1] = 1000 * LS
    /\ ret.ik = 1

\* The pose in current_angle has been run through getPoint and getIK_Gamma.
PoseSolved ==
    /\ ret.op = "getIK_Gamma"
    /\ \E pt \in {getPoint(current_angle)} :
           ret.arg = <<pt.point[1], pt.point[2], pt.point[3], pt.gamma>>

\* Joints lo..3 of the stored solution are the pose's, within tol angle units.
SameJoints(lo, tol) ==
    \A i \in lo .. 3 : Abs(desired_angle[i] - current_angle[i]) <= tol

C18_JogPointClampedOneFrame ==
    [][(ret'.op = "movePointWithSpeed" /\ ncmd' # ncmd) =>
         /\ Abs(ret'.arg[1]) <= ret'.arg[5]
         /\ Abs(ret'.arg[2]) <= ret'.arg[5]
         /\ ret'.arg[3] >= ret'.arg[6]
         /\ ret'.arg[3] <= ret'.arg[7]
         /\ Abs(ret'.arg[4]) <= ret'.arg[8]
         /\ Cardinality({k \in 1 .. Len(log') : log'[k].op = "sync"})
              = (IF ret'.ik = 0 THEN 1 ELSE 0)
         /\ \A k \in 1 .. Len(log') : log'[k].op # "goal"
         /\ pc' = "idle"
         /\ UNCHANGED <<W, remTime, currentTime>>]_vars

\* C18, its case: a jog past the box was cut to its wall and solved.
C18_JogCutAtWall ==
    /\ ret.op = "movePointWithSpeed"
    /\ ret.ik = 0
    /\ ret.arg[2] = ret.arg[5]
    /\ ret.arg[3] = ret.arg[7]
    /\ \E k \in 1 .. Len(log) : log[k].op = "sync"

\* C19: relaxServos sends torque-disable to the bus id of each of the six
\* channels and nothing else, and leaves isRelaxed = 1; torqueServos does the
\* same with torque-enable and leaves isRelaxed = 0.  Neither writes a goal
\* position nor touches the cached or the desired state.
C19_TorqueCommandsOnly ==
    [][(ret'.op \in {"relaxServos", "torqueServos"} /\ ncmd' # ncmd) =>
         \E on \in {IF ret'.op = "relaxServos" THEN 0 ELSE 1} :
             /\ Len(log') = SERVOCOUNT
             /\ \A i \in Idx : log'[i + 1] = Ev("torque", id[i], on)
             /\ isRelaxed' = 1 - on
             /\ UNCHANGED <<id, servo, current_position, current_angle,
                            desired_position, desired_angle, W, pc>>]_vars

\* C19, its case: the arm has been relaxed after channel 2 got a new bus id,
\* and the torque-disable of that channel went to the new id.
C19_RelaxedUnderNewId ==
    /\ ret.op = "relaxServos"
    /\ isRelaxed = 1
    /\ id[2] = 16
    /\ log[3] = Ev("torque", 16, 0)

\* C20 (as claimed): a move to a point that fails in its solver leaves the
\* servos, their torque and the torque flag as they were: a relaxed arm stays
\* relaxed, and no torque or goal command goes out.
C20_FailedMoveKeepsTorque ==
    [][(/\ ret'.op \in {"moveArmQ4", "moveArmGamma", "moveArmRd", "moveArmRdBase",
                        "setArmGamma"}
        /\ ncmd' # ncmd
        /\ ret'.ik = 1) =>
         /\ UNCHANGED <<servo, torque, isRelaxed>>
         /\ \A k \in 1 .. Len(log') : log'[k].op = "read"]_vars

\* Elbow candidate q3 of the getIK_Q4 call recorded in ret passes the elbow
\* limit and gives a shoulder angle that passes the shoulder limit.
Q4Passes(q3) ==
    /\ ~OutOfLim(q3, q3Lim)
    /\ ~OutOfLim(Q4Shoulder(q3, current_angle[3],
                            Hypot(ret.arg[1], ret.arg[2]), ret.arg[3] - L0).q2,
                 q2Lim)

\* C21 (as claimed): getIK_Q4 succeeds exactly when cond >= 0 and the minus or
\* the plus elbow candidate passes the elbow and the shoulder limit.
C21_Q4SucceedsIffCandidatePasses ==
    ret.op = "getIK_Q4" =>
        \E e \in {Q4Elbows(ret.arg[1], ret.arg[2], ret.arg[3], current_angle[3])} :
            ret.ik = 0 <=> (e.cond >= 0 /\ (Q4Passes(e.q3m) \/ Q4Passes(e.q3p)))

\* C22 (as claimed): the elbow angle getIK_Q4 stores is the minus or the plus
\* solution of the equation with the coefficients a, b, c that gave cond.
C22_Q4StoresASolution ==
    (ret.op = "getIK_Q4" /\ ret.ik = 0) =>
        \E e \in {Q4Elbows(ret.arg[1], ret.arg[2], ret.arg[3], current_angle[3])} :
            desired_angle[2] \in {e.q3m, e.q3p}

\* The gamma solve recorded in ret succeeded exactly when one of the elbow
\* candidates first, other passes the elbow, the shoulder and the wrist-pitch
\* limit, and it stored the q2, q3, q4 of the one that passes, of first if
\* both do.
GammaFirstPassing(first, other) ==
    LET try(q3) ==
            Let(GammaPass(q3, GammaX(ret.arg[1], ret.arg[2], ret.arg[4]),
                          GammaZ(ret.arg[3], ret.arg[4]), ret.arg[4]),
                LAMBDA p :
                [ok |-> /\ ~OutOfLim(q3, q3Lim)
                        /\ ~OutOfLim(p.q2, q2Lim)
                        /\ ~OutOfLim(p.q4, q4Lim),
                 Q  |-> <<p.q2, q3, p.q4>>])
    IN  \E f \in {try(first)}, o \in {try(other)} :
            IF ret.ik = 0
              THEN /\ f.ok \/ o.ok
                   /\ <<desired_angle[1], desired_angle[2], desired_angle[3]>>
                        = (IF f.ok THEN f.Q ELSE o.Q)
              ELSE ~f.ok /\ ~o.ok

\* c of the gamma solve recorded in ret.
RetC ==
    GammaC(GammaX(ret.arg[1], ret.arg[2], ret.arg[4]),
           GammaZ(ret.arg[3], ret.arg[4]))

\* C23: getIK_Gamma with |c| <= 1 succeeds exactly when alpha + acos(c) or
\* alpha - acos(c) passes the elbow, shoulder and wrist-pitch limits, and
\* stores the q2, q3, q4 of the first of them, in that order, that passes.
C23_GammaFirstPassingCandidate ==
    (ret.op = "getIK_Gamma" /\ Abs(RetC) <= FS) =>
        \E ac \in {Acos(RetC)} :
            GammaFirstPassing(WrapAngle(alpha + ac), WrapAngle(alpha - ac))

\* C23, its case: alpha + acos(c) failed a limit and the solve stored
\* alpha - acos(c).
C23_SecondCandidateStored ==
    /\ ret.op = "getIK_Gamma"
    /\ ret.ik = 0
    /\ Abs(RetC) <= FS
    /\ desired_angle[2] = WrapAngle(alpha - Acos(RetC))
    /\ desired_angle[2] < alpha - 100000

\* C24: getIK_Gamma_Controller with |c| <= 1 prefers the candidate nearer to
\* the elbow angle last read, alpha + acos(c) on a tie, falls back to the
\* other one, and fails only when both fail a limit.
C24_ControllerNearerFirst ==
    (ret.op = "getIK_Gamma_Controller" /\ Abs(RetC) <= FS) =>
        \E ac \in {Acos(RetC)} :
        \E q3_1 \in {WrapAngle(alpha + ac)}, q3_2 \in {WrapAngle(alpha - ac)} :
            IF Abs(q3_1 - current_angle[2]) <= Abs(q3_2 - current_angle[2])
              THEN GammaFirstPassing(q3_1, q3_2)
              ELSE GammaFirstPassing(q3_2, q3_1)

\* C24, its case: the nearer candidate alpha - acos(c) failed a limit and the
\* solve stored alpha + acos(c).
C24_FellBackToFarther ==
    /\ ret.op = "getIK_Gamma_Controller"
    /\ ret.ik = 0
    /\ Abs(RetC) <= FS
    /\ \E ac \in {Acos(RetC)} :
          /\ desired_angle[2] = WrapAngle(alpha + ac)
          /\ Abs(WrapAngle(alpha + ac) - current_angle[2])
               > Abs(WrapAngle(alpha - ac) - current_angle[2])

\* C25: a trajectory, once started, runs to its end whatever its duration, no
\* other command comes in between, and the step that ends it writes, last, to
\* each channel it drives the desired position of that channel.
C25_TrajectoryRunsToCompletion ==
    /\ (pc # "idle") ~> (pc = "idle")
    /\ [][pc # "idle" =>
            /\ ret' = ret
            /\ ncmd' = ncmd
            /\ UNCHANGED <<W, remTime, desired_position>>
            /\ pc' \in {pc, "idle"}
            /\ pc' = pc => currentTime < remTime /\ currentTime' > currentTime
            /\ pc' = "idle" =>
                 /\ currentTime >= remTime
                 /\ \A i \in 0 .. (Active(pc) - 1) :
                        log'[i + 1] = Ev("goal", id[i], desired_position[i])
                 /\ \A k \in (Active(pc) + 1) .. Len(log') : log'[k].op = "read"]_vars

\* C25, its case: a move whose trajectory was handed a negative duration has
\* ended with the exact goals.
C25_NegativeDurationEnded ==
    /\ pc = "idle"
    /\ ret.op = "moveArmQ4"
    /\ ret.ik = 0
    /\ remTime < 0
    /\ Len(log) = SERVOCOUNT - 1
    /\ log[1] = Ev("goal", id[0], desired_position[0])

\* C26 (as stated): every move to a point, setArmGamma included, reads the
\* position of all six channels before it solves.
C26_EveryMoveRefreshesAll ==
    [][ncmd' # ncmd /\ ret'.op \in {"moveArmQ4", "moveArmGamma", "moveArmRd",
                                    "moveArmRdBase", "setArmGamma"}
         => \A i \in Idx : \E k \in 1 .. Len(log') :
                log'[k].op = "read" /\ log'[k].bus = id[i]]_vars

\* C26 (amended): a move to a point first turns the torque of all six
\* channels on if the arm was relaxed and clears the flag.  moveArmQ4,
\* moveArmGamma, moveArmRd and moveArmRdBase then read all six channels, solve
\* from what was read, and start the trajectory, from the positions read, only
\* if the solver succeeded.  setArmGamma then solves, reading inside the
\* solver the elbow channel alone, and writes its one frame only on success.
C26_MoveStepsInOrder ==
    [][ncmd' # ncmd /\ ret'.op \in {"moveArmQ4", "moveArmGamma", "moveArmRd",
                                    "moveArmRdBase", "setArmGamma"}
         => LET n    == IF isRelaxed # 0 THEN SERVOCOUNT ELSE 0
                rest == SubSeq(log', n + 1, Len(log'))
                m    == Cardinality({k \in 1 .. Len(rest) : rest[k].op = "read"})
                \* the reads of channel i that were answered, and the value
                \* the last of them gave (-1 if there is none)
                ks(i) == {k \in 1 .. m : rest[k].bus = id[i] /\ rest[k].val # -1}
                LastRead(i) ==
                    IF ks(i) = {} THEN -1
                    ELSE rest[CHOOSE k \in ks(i) : \A j \in ks(i) : j <= k].val
            IN  /\ isRelaxed' = 0
                /\ SubSeq(log', 1, n) = Engage
                /\ \A k \in 1 .. m : rest[k].op = "read"
                /\ \A i \in Idx : LastRead(i) # -1
                       => current_position'[i] = LastRead(i)
                /\ IF ret'.op = "setArmGamma"
                     THEN /\ \A k \in 1 .. m : rest[k].bus = id[2]
                          /\ Len(rest) = m + (IF ret'.ik = 0 THEN 1 ELSE 0)
                          /\ ret'.ik = 0 => m >= 1 /\ rest[m + 1].op = "sync"
                          /\ pc' = "idle"
                     ELSE /\ Len(rest) = m
                          /\ \A i \in Idx : \E k \in 1 .. m : rest[k].bus = id[i]
                          /\ pc' = (IF ret'.ik = 0 THEN "interpolate" ELSE "idle")
                          /\ ret'.ik = 0 =>
                               \A i \in 0 .. (SERVOCOUNT - 2) :
                                   W'[i][1] = current_position'[i]
                          /\ ret'.ik = 0 /\ ret'.op = "moveArmQ4" =>
                               desired_angle'[3] = current_angle'[3]]_vars

\* C26, its case: setArmGamma on a relaxed arm has turned the torque on, read
\* the elbow and written its frame, and nothing else.
C26_DirectMoveReadElbowOnly ==
    /\ ret.op = "setArmGamma"
    /\ ret.ik = 0
    /\ Len(log) = SERVOCOUNT + 2
    /\ log[1].op = "torque"
    /\ log[SERVOCOUNT + 1].op = "read"
    /\ log[SERVOCOUNT + 1].bus = id[2]
    /\ log[SERVOCOUNT + 2].op = "sync"

\* C27: every goal position that a successful move to a point writes, the
\* exact goals after the loop included, lies in the raw range of the servo
\* written: 0..4095 on channels 0..3, 0..1023 on channel 4.
C27_MoveGoalsInRawRange ==
    ret.op \in {"moveArmQ4", "moveArmGamma", "moveArmRd", "moveArmRdBase",
                "setArmGamma"} /\ ret.ik = 0
      => /\ \A k \in 1 .. Len(log) :
                log[k].op = "goal" =>
                    \E i \in 0 .. (SERVOCOUNT - 2) :
                        /\ id[i] = log[k].bus
                        /\ log[k].val \in 0 .. RawMax(i)
         /\ ret.op = "setArmGamma" =>
                \A i \in 0 .. 3 : desired_position[i] \in 0 .. RawMax(i)

\* C28: while a trajectory runs, every position the loop commands lies between
\* the position the channel started from and its goal, both included: the
\* writes of the passes made, and the rounded cubic at every millisecond a
\* pass can fall on (every second one for a duration above 1000 ms).
C28_SamplesBetweenEndpoints ==
    pc # "idle" =>
        /\ currentTime > 0 =>
               \A k \in 1 .. Len(log) :
                   /\ log[k].val >= Min(W[k - 1][1], desired_position[k - 1])
                   /\ log[k].val <= Max(W[k - 1][1], desired_position[k - 1])
        /\ currentTime = 0 =>
               \A i \in 0 .. (Active(pc) - 1) :
               \A t \in {u \in 0 .. (remTime - 1) : remTime <= 1000 \/ u % 2 = 0} :
                   /\ PolyAt(W[i], t, remTime)
                          >= Min(W[i][1], desired_position[i])
                   /\ PolyAt(W[i], t, remTime)
                          <= Max(W[i][1], desired_position[i])

\* C28, its case: a pass of the loop has commanded a channel to a position
\* strictly between its start and its goal.
C28_MidwaySampleWritten ==
    /\ pc = "interpolate"
    /\ currentTime > 0
    /\ \E k \in 1 .. Len(log) :
           /\ log[k].val > Min(W[k - 1][1], desired_position[k - 1])
           /\ log[k].val < Max(W[k - 1][1], desired_position[k - 1])

\* Where n calls of moveGrip(close) take the gripper from position p, the
\* servo following each command.
RECURSIVE GripAfter(_, _, _)
GripAfter(p, close, n) ==
    IF n = 0 THEN p
    ELSE IF n = 1 THEN GripStep(p, close)
    ELSE Let(GripAfter(p, close, n \div 2), LAMBDA h :
             GripAfter(h, close, n - n \div 2))

\* C29: a call of moveGrip reads the gripper where it stands and commands
\* GripStep of what it read, a position in 0 .. 1023 to which the servo goes
\* and which is nearer to the rest of its direction (512 for moveGrip(0), 0
\* for moveGrip(1)) unless the gripper is there, where the same position is
\* commanded again; and from wherever the gripper stands, calls of moveGrip(0)
\* take it to exactly 512 and calls of moveGrip(1) to exactly 0.
C29_GripperSettles ==
    /\ [](/\ servo[6] \in 0 .. 1023
          /\ GripAfter(servo[6], 0, MaxGripCalls) = 512
          /\ GripAfter(servo[6], 1, MaxGripCalls) = 0
          /\ GripStep(512, 0) = 512
          /\ GripStep(0, 1) = 0)
    /\ [][ncmd' # ncmd =>
            /\ log' = <<Ev("read", id[5], servo[6]),
                        Ev("goal", id[5], servo'[6])>>
            /\ \E close \in {0, 1} :
                   /\ servo'[6] = GripStep(servo[6], close)
                   /\ Abs(servo'[6] - (IF close # 0 THEN 0 ELSE 512))
                        <= Abs(servo[6] - (IF close # 0 THEN 0 ELSE 512))
                   /\ servo'[6] # servo[6]
                        => Abs(servo'[6] - (IF close # 0 THEN 0 ELSE 512))
                             < Abs(servo[6] - (IF close # 0 THEN 0 ELSE 512))]_vars

\* C29, its case: the gripper was opened to 512 by one call, and the call
\* after it read 512 and commanded 512 again.
C29_OpenedAndHeld ==
    /\ ret.op = "moveGrip"
    /\ ncmd = 2
    /\ log = <<Ev("read", id[5], 512), Ev("goal", id[5], 512)>>

\* C30: moveServo2Position and moveServo2Angle with an index in 0 .. 5 read
\* the channel and then write, from the position getServoPosition returned
\* (the one read, or the cached one if no read was answered), one goal per
\* count toward pos, each one count from the one before: as many writes as
\* counts between the two, the last of them pos itself, and none if the two
\* are equal.  For moveServo2Angle pos is angleToPosition(idx, angle).
C30_RampOneCountAtATime ==
    [][ncmd' # ncmd /\ ret'.op \in {"moveServo2Position", "moveServo2Angle"}
                    /\ ret'.arg \in Idx
         => LET idx  == ret'.arg
                pos  == ret'.val
                curr == current_position'[idx]
                n    == Abs(pos - curr)
                m    == Len(log') - n
            IN  /\ m >= 1
                /\ \A k \in 1 .. m :
                       log'[k].op = "read" /\ log'[k].bus = id[idx]
                /\ curr = (IF log'[m].val # -1 THEN log'[m].val
                                               ELSE current_position[idx])
                /\ log'[m].val # -1 => log'[m].val = servo[id[idx]]
                /\ \A k \in 1 .. n :
                       log'[m + k] = Ev("goal", id[idx],
                                        IF curr < pos THEN curr + k ELSE curr - k)
                /\ n > 0 => log'[Len(log')].val = pos]_vars

\* C30, its case: moveServo2Angle has taken a servo three counts up, to the
\* position of the angle asked for.
C30_RampedUpToAngle ==
    /\ ret.op = "moveServo2Angle"
    /\ ret.val = current_position[ret.arg] + 3
    /\ Len(log) = 4
    /\ log[4] = Ev("goal", id[ret.arg], ret.val)
    /\ log[2].val = current_position[ret.arg] + 1

====
